---- MODULE Spec2Model ----
(***************************************************************************)
(* The connection manager of the chat relay                                *)
(* (backend/app/websocket_manager.py, class ConnectionManager) together    *)
(* with the per-transport handler of the /ws endpoint                      *)
(* (backend/app/routers/websocket.py, websocket_endpoint).                 *)
(*                                                                         *)
(* One asyncio event loop runs everything.  A step of the model is the     *)
(* code one task executes between two suspension points; the suspension    *)
(* points are the awaits on network I/O (receive_text, send_text) and on   *)
(* asyncio.sleep.  A step therefore ends right after a frame has been      *)
(* handed to a transport.  Between two writes of one operation the model   *)
(* lets peers go away and handlers that find their transport closed run    *)
(* disconnect(); the restore and cleanup tasks and the frames of the       *)
(* other connections are taken up when no handler is inside an operation.  *)
(***************************************************************************)
EXTENDS Integers, Sequences, FiniteSets, Bags, TLC

(***************************************************************************)
(* Identities, transports, generated identifiers.                          *)
(***************************************************************************)
Users == {"A", "B", "C"}
NoUser == "none"

\* Transports (WebSocket objects).  A slot is reused for a new WebSocket
\* once the handler of the previous one has returned.
Sockets == {1, 2, 3}
NoSock == 0

\* The identity the client on each transport announces in its HELLO: one
\* transport per identity, or a second transport of A in place of C's.
OneEach == [s \in Sockets |-> CASE s = 1 -> "A" [] s = 2 -> "B" [] OTHER -> "C"]
TwoForA == [s \in Sockets |-> CASE s = 1 -> "A" [] s = 2 -> "B" [] OTHER -> "A"]

NoName == ""

\* display_name sent in the HELLO of each identity.
NameOf == [u \in Users \cup {NoUser} |->
             CASE u = "A" -> "Ann" [] u = "B" -> "Bob" [] u = "C" -> "Cy" [] OTHER -> NoName]

\* uuid4() values are modelled by a counter: every call returns a new value.
MaxUuid == 3
Uuids == 1..MaxUuid
NoChat == 0

\* asyncio.sleep(5) in delayed_cleanup_user_chats; one Tick is one second.
GracePeriod == 5

\* offline_for of an identity that disconnect() has not removed.
Never == 0 - 1

\* The age of something that is not there.
NoAge == 0 - 1

\* How many times clients go away in one behaviour.
MaxCloses == 1
MaxClosesTwoForA == 2

\* self.max_message_length
MaxMessageLength == 1000

\* self.ping_interval, self.ping_miss_threshold
ping_interval == 30
ping_miss_threshold == 4

\* What a send_text on a closed transport raises.
FailKinds == {"WebSocketDisconnect", "Exception"}
NoFail == "none"

(***************************************************************************)
(* chat_sessions is a dict; iteration follows insertion order, which       *)
(* create_or_get_chat and restore_user_chat_session depend on.  A dict is  *)
(* a sequence of <<key, value>>.                                           *)
(***************************************************************************)
DictHas(d, k) == \E i \in 1..Len(d) : d[i][1] = k
DictGet(d, k) == d[CHOOSE i \in 1..Len(d) : d[i][1] = k][2]
DictDel(d, k) == SelectSeq(d, LAMBDA e : e[1] # k)
DictPut(d, k, v) ==
  IF DictHas(d, k)
  THEN [i \in 1..Len(d) |-> IF d[i][1] = k THEN <<k, v>> ELSE d[i]]
  ELSE Append(d, <<k, v>>)

VARIABLES
  active_connections,  \* user_id -> WebSocket (NoSock: no entry)
  user_info,           \* user_id -> display_name (NoName: no entry)
  last_ping,           \* the user_ids that have a last_ping entry
  last_ping_age,       \* user_id -> seconds since its last_ping entry was written, capped
                       \* (NoAge: no entry); time passes for it where start_ping_task runs
  connection_activity, \* user_id -> seconds since its connection_activity entry was
                       \* written, capped (NoAge: no entry)
  chat_sessions,       \* dict chat_id -> set of user_ids
  user_chats,          \* user_id -> chat_id (NoChat: no entry)
  typing_users,        \* chat_id -> set of typing user_ids ({}: no entry)
  uuid_next,           \* the next value uuid4() returns
  restore_tasks,       \* user_ids with a restore_user_chat_session task created and not yet run
  cleanup_tasks,       \* bag of <<user_id, seconds left>>: delayed_cleanup_user_chats tasks asleep
  transport,           \* per transport: "none", "open", "closed" (peer gone)
  handler,             \* per transport: where websocket_endpoint is, and the fan-out it is in
  offline_for,         \* seconds since disconnect() removed the identity (capped); Never
                       \* when it has not since its restore task last ran
  cleaned,             \* identities whose delayed cleanup ran while they were not registered,
                       \* since disconnect() last removed them
  closes,              \* how many times a client has gone away
  rate_limiter,        \* the RateLimiter object: its three timestamp dicts and last_cleanup
  clock,               \* time.time(), in seconds since the RateLimiter was constructed
  admitted,            \* per identity and type: the times, not more than Window seconds ago,
                       \* at which check_rate_limit returned True since reset_user_limits
  admitted_all,        \* the same, whether or not reset_user_limits was called
  scenario,            \* who calls check_rate_limit with which type, and how often time passes
  resets,              \* how many times reset_user_limits has been called
  sweep_in,            \* seconds until start_ping_task wakes from its sleep
  sweeping,            \* the user_ids start_ping_task has yet to look at in this sweep
  heard_age,           \* user_id -> seconds, capped, since a frame last arrived from it
                       \* after its handshake (NoAge: none has)
  running,             \* self._running
  ping_task,           \* self._ping_task: where start_ping_task is, and the disconnect it
                       \* is in
  cleanup_task,        \* self._cleanup_task: where start_cleanup_task is, and the seconds
                       \* until it wakes from its sleep
  ev                   \* what the last step did: operation, frames written, response

\* What only the specifications of the RateLimiter object change.
rlGhost == <<clock, admitted, admitted_all, scenario, resets>>
rlVars == <<rate_limiter, rlGhost>>
\* What only the specification with start_ping_task changes.
taskVars == <<running, ping_task, cleanup_task>>
liveVars == <<sweep_in, sweeping, heard_age, taskVars>>
coreVars == <<active_connections, user_info, last_ping, last_ping_age, connection_activity,
              chat_sessions, user_chats,
              typing_users, uuid_next, restore_tasks, cleanup_tasks, rlVars>>
mgrVars == <<coreVars, liveVars>>
vars == <<active_connections, user_info, last_ping, last_ping_age, connection_activity,
          chat_sessions, user_chats,
          typing_users, uuid_next, restore_tasks, cleanup_tasks,
          transport, handler, offline_for, closes, ev, rlVars, liveVars>>

\* The manager's fields as one record, so that the methods compose.
Cur ==
  [active_connections |-> active_connections, user_info |-> user_info,
   last_ping |-> last_ping, last_ping_age |-> last_ping_age,
   connection_activity |-> connection_activity,
   chat_sessions |-> chat_sessions, user_chats |-> user_chats,
   typing_users |-> typing_users, uuid_next |-> uuid_next,
   restore_tasks |-> restore_tasks, cleanup_tasks |-> cleanup_tasks,
   rate_limiter |-> rate_limiter]

CommitFields(m) ==
  /\ active_connections' = m.active_connections
  /\ user_info' = m.user_info
  /\ last_ping' = m.last_ping
  /\ last_ping_age' = m.last_ping_age
  /\ connection_activity' = m.connection_activity
  /\ chat_sessions' = m.chat_sessions
  /\ user_chats' = m.user_chats
  /\ typing_users' = m.typing_users
  /\ uuid_next' = m.uuid_next
  /\ restore_tasks' = m.restore_tasks
  /\ cleanup_tasks' = m.cleanup_tasks
  /\ rate_limiter' = m.rate_limiter

Commit(m) == CommitFields(m) /\ UNCHANGED <<rlGhost, liveVars>>

(***************************************************************************)
(* Frames.                                                                 *)
(***************************************************************************)
NoFrame == [type |-> "NONE"]
HelloAck(u) == [type |-> "HELLO_ACK", user_id |-> u]
ErrorMessage(code) == [type |-> "ERROR", error_code |-> code]
PresenceMessage(users, action) == [type |-> "PRESENCE", users |-> users, action |-> action]
ChatOpenedMessage(c, parts, target, tname) ==
  [type |-> "CHAT_OPENED", chat_id |-> c, participants |-> parts,
   target_user_id |-> target, target_display_name |-> tname]

\* One entry of a step's log: the frame, whom it was for, the transport it was
\* written to, and how the send ended.
Sent(u, s, f, res) == [to |-> u, sock |-> s, frame |-> f, res |-> res]

MsgMessage(message_id, content, sender_id, sender_name) ==
  [type |-> "MSG", message_id |-> message_id, content |-> content,
   sender_id |-> sender_id, sender_name |-> sender_name]
MsgAck(message_id, status) == [type |-> "MSG_ACK", message_id |-> message_id, status |-> status]
Pong == [type |-> "PONG"]

\* A handler: where it is, the identity it serves, and, inside a fan-out, the
\* frame, the recipients still to be written to, delivery_success so far (ok)
\* and the recipient send_to_chat_with_ack has just written to (last): it
\* looks into active_connections for it when it resumes.  reached records
\* whether every MSG write of the fan-out was delivered; no action reads it.
FreeHandler ==
  [pc |-> "free", user_id |-> NoUser, op |-> "none", pend |-> {}, frame |-> NoFrame,
   ok |-> TRUE, last |-> NoUser, reached |-> TRUE]
MainLoop(u) == [FreeHandler EXCEPT !.pc = "main", !.user_id = u]
NoEv == [op |-> "none", sock |-> NoSock, user |-> NoUser, fin |-> TRUE, log |-> {},
         resp |-> "none"]
Event(op, s, u, fin, log, resp) ==
  [op |-> op, sock |-> s, user |-> u, fin |-> fin, log |-> log, resp |-> resp]

\* The handlers that are inside an operation.
Busy == {s \in Sockets : handler[s].pc \notin {"free", "main", "hello_wait"}}
\* A task other than those may take a step: no handler is inside an
\* operation and start_ping_task is not inside a sweep.
CanRun == Busy = {} /\ sweeping = {} /\ ping_task.pc # "disconnect"
\* An inbound event is taken up: the restore task created by the last
\* handshake is ahead of it in the loop's ready queue.
CanReceive == CanRun /\ restore_tasks = {}
\* A loop that takes the next chat frame of s while the frame before it is
\* still being fanned out or acknowledged.
ReceivesNextUnawaited(s) ==
  /\ handler[s].pc \in {"main", "fanout", "msg_ack"}
  /\ Busy \ {s} = {} /\ sweeping = {} /\ restore_tasks = {}
\* The endpoint's loop is at receive_text on s: handle_message of the frame
\* before has been awaited to its end, every write of its fan-out included.
ReceivesNext(s) == handler[s].pc = "main" /\ CanReceive

(***************************************************************************)
(* rate_limiter.py: the RateLimiter object.                                *)
(***************************************************************************)

\* RateLimiter.__init__: empty dicts (an identity without an entry has the
\* empty deque), last_cleanup = time.time().
NewRateLimiter ==
  [message_timestamps |-> [u \in Users |-> <<>>],
   typing_timestamps |-> [u \in Users |-> <<>>],
   ping_timestamps |-> [u \in Users |-> <<>>],
   last_cleanup |-> 0]

LimitedTypes == {"MSG", "TYPING", "PING"}

\* self.message_limit, self.typing_limit, self.ping_limit, self.cleanup_interval
message_limit == 60
typing_limit == 10
ping_limit == 30
cleanup_interval == 300
\* cutoff_time = current_time - 60
Window == 60

\* How often reset_user_limits is called in one behaviour.
MaxResets == 1
\* How often time passes in one behaviour.
MaxTicks == 2

\* while q and q[0] < cutoff_time: q.popleft()
RECURSIVE PopOld(_, _)
PopOld(q, cutoff_time) ==
  IF q # <<>> /\ Head(q) < cutoff_time THEN PopOld(Tail(q), cutoff_time) ELSE q

\* _cleanup_old_timestamps at time current_time.
CleanupOldTimestamps(rl, current_time) ==
  LET cutoff_time == current_time - Window IN
  [message_timestamps |-> [u \in Users |-> PopOld(rl.message_timestamps[u], cutoff_time)],
   typing_timestamps |-> [u \in Users |-> PopOld(rl.typing_timestamps[u], cutoff_time)],
   ping_timestamps |-> [u \in Users |-> PopOld(rl.ping_timestamps[u], cutoff_time)],
   last_cleanup |-> current_time]

\* The dict and the limit check_rate_limit uses for a limited message_type.
TimestampsOf(message_type) ==
  CASE message_type = "MSG" -> "message_timestamps"
    [] message_type = "TYPING" -> "typing_timestamps"
    [] message_type = "PING" -> "ping_timestamps"
LimitOf(message_type) ==
  CASE message_type = "MSG" -> message_limit
    [] message_type = "TYPING" -> typing_limit
    [] message_type = "PING" -> ping_limit

AtLimitOffByOne(timestamps, limit) == Len(timestamps) > limit

\* len(timestamps) >= limit
AtLimit(timestamps, limit) == Len(timestamps) >= limit

\* check_rate_limit at time current_time: the limiter afterwards and the
\* value returned.
CheckRateLimit(rl, current_time, user_id, message_type) ==
  LET rl1 == IF current_time - rl.last_cleanup > cleanup_interval
             THEN CleanupOldTimestamps(rl, current_time)
             ELSE rl
  IN  IF message_type \in LimitedTypes
      THEN LET d == TimestampsOf(message_type) IN
           IF AtLimit(rl1[d][user_id], LimitOf(message_type))
           THEN [rl |-> rl1, ok |-> FALSE]
           ELSE [rl |-> [rl1 EXCEPT ![d][user_id] = Append(@, current_time)], ok |-> TRUE]
      ELSE [rl |-> rl1, ok |-> TRUE]

\* reset_user_limits
ResetUserLimits(rl, user_id) ==
  [rl EXCEPT !.message_timestamps[user_id] = <<>>,
             !.typing_timestamps[user_id] = <<>>,
             !.ping_timestamps[user_id] = <<>>]

\* The times of q that are not more than Window seconds before current_time.
Recent(q, current_time) == SelectSeq(q, LAMBDA ts : ts >= current_time - Window)

(***************************************************************************)
(* Methods of ConnectionManager, as functions of the manager record m.     *)
(***************************************************************************)
IsOnline(m, user_id) == m.active_connections[user_id] # NoSock
OnlineSet(m) == {u \in Users : IsOnline(m, u)}

\* What a write to user_id may raise: something only when user_id is registered
\* with a transport whose peer is gone.
Raises(m, user_id) ==
  IF IsOnline(m, user_id) /\ transport[m.active_connections[user_id]] # "open"
  THEN FailKinds ELSE {NoFail}

\* connect_without_broadcast: store the transport, the name, the ping time and
\* the time of the last activity, and create the restore task.  (session_users
\* and the metrics are written and never read by the code modelled here.)
ConnectWithoutBroadcast(m, websocket, user_id, display_name) ==
  [m EXCEPT !.active_connections[user_id] = websocket,
            !.user_info[user_id] = display_name,
            !.last_ping = @ \cup {user_id},
            !.last_ping_age[user_id] = 0,
            !.connection_activity[user_id] = 0,
            !.restore_tasks = @ \cup {user_id}]

\* _cleanup_disconnected_user: name, ping time, typing indicators and rate
\* windows go; chat sessions stay for a reconnection.
CleanupDisconnectedUser(m, user_id) ==
  [m EXCEPT !.user_info[user_id] = NoName,
            !.last_ping = @ \ {user_id},
            !.last_ping_age[user_id] = NoAge,
            !.typing_users = [c \in DOMAIN @ |-> @[c] \ {user_id}],
            !.rate_limiter = ResetUserLimits(@, user_id)]

\* cleanup_user_chats: typing indicators, then the session user_chats points at
\* (deleted when fewer than two participants are left), then the pointer.
CleanupUserChats(m, user_id) ==
  LET m1 == [m EXCEPT !.typing_users = [c \in DOMAIN @ |-> @[c] \ {user_id}]]
      chat_id == m1.user_chats[user_id]
      left == DictGet(m1.chat_sessions, chat_id) \ {user_id}
  IN  IF chat_id = NoChat THEN m1
      ELSE [m1 EXCEPT
              !.chat_sessions =
                 IF ~DictHas(@, chat_id) THEN @
                 ELSE IF Cardinality(left) < 2 THEN DictDel(@, chat_id)
                 ELSE DictPut(@, chat_id, left),
              !.user_chats[user_id] = NoChat]

\* send_personal_message: nothing when the identity is not registered; a write
\* on its transport otherwise.  A write on a closed transport raises: on
\* WebSocketDisconnect the identity is unregistered and cleaned up, on any
\* other exception it is only unregistered.  Nothing is raised to the caller.
SendPersonalMessage(m, message, user_id, fk) ==
  IF ~IsOnline(m, user_id)
  THEN [m |-> m, rec |-> Sent(user_id, NoSock, message, "not_connected")]
  ELSE LET websocket == m.active_connections[user_id]
           m1 == [m EXCEPT !.active_connections[user_id] = NoSock]
       IN  IF transport[websocket] = "open"
           THEN [m |-> m, rec |-> Sent(user_id, websocket, message, "delivered")]
           ELSE [m |-> IF fk = "WebSocketDisconnect"
                       THEN CleanupDisconnectedUser(m1, user_id) ELSE m1,
                 rec |-> Sent(user_id, websocket, message, "failed")]

\* The sessions (positions in the dict) that hold user_id.
SessionsWith(cs, user_id) == {i \in 1..Len(cs) : user_id \in cs[i][2]}
FirstOf(S) == CHOOSE i \in S : \A j \in S : i <= j

\* restore_user_chat_session picks the first online participant other than
\* user_id that iterating the set yields; the iteration order of a set is
\* not fixed, so any of them.
RestoreCandidates(m, user_id) ==
  IF SessionsWith(m.chat_sessions, user_id) = {} THEN {NoUser}
  ELSE LET participants == m.chat_sessions[FirstOf(SessionsWith(m.chat_sessions, user_id))][2]
           online == {p \in participants : p # user_id /\ IsOnline(m, p)}
       IN  IF online = {} THEN {NoUser} ELSE online

UserInfoGet(m, user_id, default) ==
  IF m.user_info[user_id] = NoName THEN default ELSE m.user_info[user_id]

\* restore_user_chat_session: the first session in chat_sessions that holds
\* user_id becomes its active chat; CHAT_OPENED goes to user_id when another
\* participant is online.
RestoreUserChatSession(m, user_id, other_participant, fk) ==
  IF SessionsWith(m.chat_sessions, user_id) = {} THEN [m |-> m, log |-> {}]
  ELSE LET chat_id == m.chat_sessions[FirstOf(SessionsWith(m.chat_sessions, user_id))][1]
           m1 == [m EXCEPT !.user_chats[user_id] = chat_id]
           r == SendPersonalMessage(m1,
                  ChatOpenedMessage(chat_id, <<user_id, other_participant>>, other_participant,
                                    UserInfoGet(m1, other_participant, "Unknown User")),
                  user_id, fk)
       IN  IF other_participant = NoUser THEN [m |-> m1, log |-> {}]
           ELSE [m |-> r.m, log |-> {r.rec}]

\* create_or_get_chat that does not look for an existing session.
CreateChat(m, user1_id, user2_id) ==
  [m |-> [m EXCEPT !.chat_sessions = Append(@, <<m.uuid_next, {user1_id, user2_id}>>),
                   !.uuid_next = @ + 1,
                   !.user_chats[user1_id] = m.uuid_next,
                   !.user_chats[user2_id] = m.uuid_next],
   chat_id |-> m.uuid_next]

\* create_or_get_chat: the first session holding both, else a new one; both
\* pointers are set to it.
SessionsWithBoth(cs, u1, u2) == {i \in 1..Len(cs) : u1 \in cs[i][2] /\ u2 \in cs[i][2]}
CreateOrGetChat(m, user1_id, user2_id) ==
  LET found == SessionsWithBoth(m.chat_sessions, user1_id, user2_id)
      chat_id == IF found # {} THEN m.chat_sessions[FirstOf(found)][1] ELSE m.uuid_next
      m1 == IF found # {} THEN m
            ELSE [m EXCEPT !.chat_sessions = Append(@, <<chat_id, {user1_id, user2_id}>>),
                           !.uuid_next = @ + 1]
  IN  [m |-> [m1 EXCEPT !.user_chats[user1_id] = chat_id, !.user_chats[user2_id] = chat_id],
       chat_id |-> chat_id]

\* A snapshot that lists the newcomer too.
OnlineUsersWithSelf(m, user_id) ==
  {<<uid, m.user_info[uid], TRUE>> : uid \in {x \in Users : IsOnline(m, x)}}

\* The snapshot broadcast_presence_update("connect") builds for the newcomer.
OnlineUsersFor(m, user_id) ==
  {<<uid, m.user_info[uid], TRUE>> :
      uid \in {x \in Users : m.user_info[x] # NoName /\ IsOnline(m, x) /\ x # user_id}}

\* list(self.active_connections.keys()) without user_id.  The loops over it
\* send in dict order; the model lets the sends happen in any order.
OtherKeys(m, user_id) == OnlineSet(m) \ {user_id}

DisconnectAppliesAlways(m, user_id) == TRUE

\* disconnect acts only `if user_id in self.active_connections`.
DisconnectApplies(m, user_id) == IsOnline(m, user_id)

\* disconnect, up to the broadcast: the registry entry goes, then
\* _cleanup_disconnected_user; display_name is read before both.
DisconnectRemove(m, user_id) ==
  CleanupDisconnectedUser([m EXCEPT !.active_connections[user_id] = NoSock], user_id)

DisconnectMessage(m, user_id) ==
  PresenceMessage({<<user_id, UserInfoGet(m, user_id, "Unknown"), FALSE>>}, "disconnect")

\* asyncio.create_task(self.delayed_cleanup_user_chats(user_id)): the task
\* sleeps GracePeriod seconds.
ScheduleCleanup(m, user_id) ==
  [m EXCEPT !.cleanup_tasks = @ (+) SetToBag({<<user_id, GracePeriod>>})]

\* delayed_cleanup_user_chats wakes up: cleanup_user_chats unless the identity
\* is registered.
DelayedCleanupUserChats(m, user_id) ==
  LET m1 == [m EXCEPT !.cleanup_tasks = @ (-) SetToBag({<<user_id, 0>>})]
  IN  IF ~IsOnline(m1, user_id) THEN CleanupUserChats(m1, user_id) ELSE m1

(***************************************************************************)
(* Initial state: a fresh ConnectionManager, no transport accepted.        *)
(***************************************************************************)
\* start_ping_task in its loop, asleep or looking at the identities of a sweep.
PingLoop == [pc |-> "loop", user |-> NoUser, pend |-> {}, frame |-> NoFrame]
\* await asyncio.sleep(300) of start_cleanup_task.
cleanup_sleep == 300
\* start_cleanup_task in its loop, with wake_in seconds of its sleep left.
CleanupLoop(wake_in) == [pc |-> "loop", wake_in |-> wake_in]

\* The state lifespan has brought the manager to by the time the first
\* transport is accepted: start_background_tasks has run.
InitManager ==
  /\ active_connections = [u \in Users |-> NoSock]
  /\ user_info = [u \in Users |-> NoName]
  /\ last_ping = {}
  /\ last_ping_age = [u \in Users |-> NoAge]
  /\ connection_activity = [u \in Users |-> NoAge]
  /\ chat_sessions = <<>>
  /\ user_chats = [u \in Users |-> NoChat]
  /\ typing_users = [c \in Uuids |-> {}]
  /\ uuid_next = 1
  /\ restore_tasks = {}
  /\ cleanup_tasks = EmptyBag
  /\ transport = [s \in Sockets |-> "none"]
  /\ handler = [s \in Sockets |-> FreeHandler]
  /\ offline_for = [u \in Users |-> Never]
  /\ cleaned = {}
  /\ closes = 0
  /\ sweep_in = ping_interval
  /\ sweeping = {}
  /\ heard_age = [u \in Users |-> NoAge]
  /\ running = TRUE
  /\ ping_task = PingLoop
  /\ cleanup_task = CleanupLoop(cleanup_sleep)
  /\ ev = NoEv

InitRateLimiter ==
  /\ rate_limiter = NewRateLimiter
  /\ clock = 0
  /\ admitted = [u \in Users |-> [ty \in LimitedTypes |-> <<>>]]
  /\ admitted_all = [u \in Users |-> [ty \in LimitedTypes |-> <<>>]]
  /\ resets = 0

\* Nobody calls check_rate_limit.
NoScenario == [callers |-> {}, ticks |-> 0, resets |-> 0]

Init == InitManager /\ InitRateLimiter /\ scenario = NoScenario

(***************************************************************************)
(* websocket_endpoint, up to the main loop.                                *)
(***************************************************************************)

\* The peer goes away.  The handler learns of it at its next receive_text;
\* until then writes on the transport fail.
ClientCloseUpTo(s, n) ==
  /\ transport[s] = "open"
  /\ closes < n
  /\ transport' = [transport EXCEPT ![s] = "closed"]
  /\ closes' = closes + 1
  /\ ev' = NoEv
  /\ UNCHANGED <<mgrVars, handler, offline_for, cleaned>>

ClientClose(s) == ClientCloseUpTo(s, MaxCloses)

\* The first frame is a HELLO: connect_without_broadcast, then HELLO_ACK is
\* written on the transport.  The handler was at pc: "free" when the accept is
\* part of the step, "hello_wait" when it has awaited receive_text since.
HelloFrom(s, u, pc) ==
  /\ handler[s].pc = pc
  /\ pc = "hello_wait" => transport[s] = "open"
  /\ CanReceive
  /\ Commit(ConnectWithoutBroadcast(Cur, s, u, NameOf[u]))
  /\ handler' = [handler EXCEPT ![s] =
        [FreeHandler EXCEPT !.pc = "connect_self", !.user_id = u, !.op = "connect"]]
  /\ transport' = [transport EXCEPT ![s] = "open"]
  /\ ev' = Event("hello", s, u, FALSE, {Sent(u, s, HelloAck(u), "delivered")}, "none")
  /\ UNCHANGED <<offline_for, cleaned, closes>>

\* A client connects, the endpoint accepts, and the first frame is a HELLO.
Hello(s, u) == HelloFrom(s, u, "free")

\* The first frame is something else: ERROR HELLO_REQUIRED (or INVALID_JSON)
\* and the endpoint returns; user_id is None, so finally does nothing.
HelloRequired(s) ==
  /\ handler[s].pc = "free"
  /\ CanReceive
  /\ ev' = Event("hello_required", s, NoUser, TRUE,
                 {Sent(NoUser, s, ErrorMessage("HELLO_REQUIRED"), "delivered")}, "HELLO_REQUIRED")
  /\ UNCHANGED <<mgrVars, transport, handler, offline_for, cleaned, closes>>

\* The first frame is not JSON: json.loads raises JSONDecodeError, ERROR
\* INVALID_JSON is written and the endpoint returns.
FirstFrameInvalidJson(s) ==
  /\ handler[s].pc = "free"
  /\ CanReceive
  /\ ev' = Event("invalid_json", s, NoUser, TRUE,
                 {Sent(NoUser, s, ErrorMessage("INVALID_JSON"), "delivered")}, "INVALID_JSON")
  /\ UNCHANGED <<mgrVars, transport, handler, offline_for, cleaned, closes>>

\* The first frame is JSON and not an object (a number, a string, a list):
\* message_data.get raises AttributeError, which only the outermost handler
\* catches; it logs, nothing is written and the endpoint returns.
FirstFrameNotObject(s) ==
  /\ handler[s].pc = "free"
  /\ CanReceive
  /\ ev' = Event("not_object", s, NoUser, TRUE, {}, "none")
  /\ UNCHANGED <<mgrVars, transport, handler, offline_for, cleaned, closes>>

\* What the handler does when a fan-out has written its last frame.
\*   connect, open_chat: back to receive_text in the main loop;
\*   disconnect: the cleanup task is created and the endpoint returns.
Finish(s, m, log) ==
  LET h == handler[s] IN
  IF h.op = "disconnect"
  THEN /\ Commit(ScheduleCleanup(m, h.user_id))
       /\ handler' = [handler EXCEPT ![s] = FreeHandler]
       /\ transport' = [transport EXCEPT ![s] = "none"]
       /\ ev' = Event("disconnect", s, h.user_id, TRUE, log, "none")
  ELSE /\ Commit(m)
       /\ handler' = [handler EXCEPT ![s] = MainLoop(h.user_id)]
       /\ transport' = transport
       /\ ev' = Event(h.op, s, h.user_id, TRUE, log, "none")

\* broadcast_presence_update("connect"), first half: the snapshot of the
\* others goes to the newcomer.
ConnectSelf(s) ==
  /\ handler[s].pc = "connect_self"
  /\ \E fk \in Raises(Cur, handler[s].user_id) :
       LET u == handler[s].user_id
           r == SendPersonalMessage(Cur, PresenceMessage(OnlineUsersFor(Cur, u), "connect"), u, fk)
       IN  /\ Commit(r.m)
           /\ handler' = [handler EXCEPT ![s].pc = "connect_others"]
           /\ ev' = Event("connect_self", s, u, FALSE, {r.rec}, "none")
  /\ UNCHANGED <<transport, offline_for, cleaned, closes>>

\* Second half: when more than one identity is registered, a one-entry frame
\* goes to every other key of active_connections, as listed now.
ConnectOthers(s) ==
  /\ handler[s].pc = "connect_others"
  /\ LET u == handler[s].user_id
         frame == PresenceMessage({<<u, NameOf[u], TRUE>>}, "connect")
         others == IF Cardinality(OnlineSet(Cur)) > 1 THEN OtherKeys(Cur, u) ELSE {}
     IN  IF others = {}
         THEN /\ UNCHANGED mgrVars
              /\ handler' = [handler EXCEPT ![s] = MainLoop(u)]
              /\ ev' = Event("connect", s, u, TRUE, {}, "none")
              /\ transport' = transport
         ELSE \E uid \in others : \E fk \in Raises(Cur, uid) :
                LET r == SendPersonalMessage(Cur, frame, uid, fk) IN
                IF others = {uid}
                THEN Finish(s, r.m, {r.rec})
                ELSE /\ Commit(r.m)
                     /\ handler' = [handler EXCEPT ![s].pc = "fanout",
                                                   ![s].pend = others \ {uid},
                                                   ![s].frame = frame]
                     /\ ev' = Event("connect", s, u, FALSE, {r.rec}, "none")
                     /\ transport' = transport
  /\ UNCHANGED <<offline_for, cleaned, closes>>

\* A fan-out that a failed write ends: the handler is back in its main loop
\* and the recipients left are never written to.
FanOutStepAborting(s) ==
  /\ handler[s].pc = "fanout"
  /\ \E uid \in handler[s].pend : \E fk \in Raises(Cur, uid) :
       LET h == handler[s]
           r == SendPersonalMessage(Cur, h.frame, uid, fk)
       IN  /\ Commit(r.m)
           /\ handler' = [handler EXCEPT ![s] =
                 IF h.pend = {uid} \/ r.rec.res = "failed" THEN MainLoop(h.user_id)
                 ELSE [h EXCEPT !.pend = @ \ {uid}]]
           /\ transport' = transport
           /\ ev' = Event(h.op, s, h.user_id, handler'[s].pc = "main", {r.rec}, "none")
  /\ UNCHANGED <<offline_for, cleaned, closes>>

\* The next write of a fan-out in progress: handler[s].frame to one of the
\* identities left in handler[s].pend.  send_to_chat_with_ack looks, when it
\* resumes after a write, whether that recipient is still registered.
FanOutStep(s) ==
  /\ handler[s].pc = "fanout"
  /\ \E uid \in handler[s].pend : \E fk \in Raises(Cur, uid) :
       LET h == handler[s]
           r == SendPersonalMessage(Cur, h.frame, uid, fk)
       IN  IF h.op = "msg"
           THEN /\ Commit(r.m)
                /\ handler' = [handler EXCEPT
                      ![s].pend = @ \ {uid},
                      ![s].ok = @ /\ IsOnline(Cur, h.last),
                      ![s].last = uid,
                      ![s].reached = @ /\ r.rec.res = "delivered",
                      ![s].pc = IF h.pend = {uid} THEN "msg_ack" ELSE "fanout"]
                /\ transport' = transport
                /\ ev' = Event("msg", s, h.user_id, FALSE, {r.rec}, "none")
           ELSE IF h.pend = {uid}
           THEN Finish(s, r.m, {r.rec})
           ELSE /\ Commit(r.m)
                /\ handler' = [handler EXCEPT ![s].pend = @ \ {uid}]
                /\ transport' = transport
                /\ ev' = Event(h.op, s, h.user_id, FALSE, {r.rec}, "none")
  /\ UNCHANGED <<offline_for, cleaned, closes>>

(***************************************************************************)
(* The main loop: OPEN_CHAT and MSG frames, dispatched to handle_open_chat *)
(* and handle_chat_message with the handler's user_id, which is how        *)
(* handle_message(websocket, user_id, data) calls them.  The call of       *)
(* handle_message in websocket_endpoint passes (websocket, message_data); *)
(* the actions below are the manager's handlers as their signatures have   *)
(* them called, for the identity registered on the transport.              *)
(***************************************************************************)

\* The response a handler returns is written on the requester's transport by
\* the endpoint.
Response(s, u, code) ==
  Sent(u, s, ErrorMessage(code), IF transport[s] = "open" THEN "delivered" ELSE "failed")

\* The identities the client on s names in an OPEN_CHAT: those a PRESENCE frame
\* can have told it of, which are never its own.
Targets(s) == Users \ {handler[s].user_id}

\* target_display_name of an OPEN_CHAT naming t.
TargetNames(t) == {NameOf[t]}

\* handle_open_chat without its look into active_connections for the target.
HandleOpenChatAnyTarget(m, user_id, target_user_id) ==
  LET r == CreateOrGetChat(m, user_id, target_user_id)
  IN  [kind |-> "opened", m |-> r.m, chat_id |-> r.chat_id]

\* handle_open_chat that sets the requester's pointer and leaves the target's.
HandleOpenChatRequesterOnly(m, user_id, target_user_id) ==
  LET r == CreateOrGetChat(m, user_id, target_user_id)
  IN  IF ~IsOnline(m, target_user_id)
      THEN [kind |-> "not_found", m |-> m, chat_id |-> NoChat]
      ELSE IF /\ m.user_chats[user_id] # NoChat
              /\ DictHas(m.chat_sessions, m.user_chats[user_id])
              /\ target_user_id \in DictGet(m.chat_sessions, m.user_chats[user_id])
      THEN [kind |-> "existing", m |-> m, chat_id |-> m.user_chats[user_id]]
      ELSE [kind |-> "opened",
            m |-> [r.m EXCEPT !.user_chats[target_user_id] = m.user_chats[target_user_id]],
            chat_id |-> r.chat_id]

\* handle_open_chat up to its first send.
\*   "not_found": the target is not registered;
\*   "existing":  the requester's active chat already holds the target;
\*   "opened":    create_or_get_chat, both added to the session, both pointers set.
HandleOpenChat(m, user_id, target_user_id) ==
  LET existing_chat_id == m.user_chats[user_id]
      r == CreateOrGetChat(m, user_id, target_user_id)
      m1 == r.m
      members == IF DictHas(m1.chat_sessions, r.chat_id)
                 THEN DictGet(m1.chat_sessions, r.chat_id) ELSE {}
  IN  IF ~IsOnline(m, target_user_id)
      THEN [kind |-> "not_found", m |-> m, chat_id |-> NoChat]
      ELSE IF /\ existing_chat_id # NoChat
              /\ DictHas(m.chat_sessions, existing_chat_id)
              /\ target_user_id \in DictGet(m.chat_sessions, existing_chat_id)
      THEN [kind |-> "existing", m |-> m, chat_id |-> existing_chat_id]
      ELSE [kind |-> "opened",
            m |-> [m1 EXCEPT
                     !.chat_sessions = DictPut(@, r.chat_id, members \cup {user_id, target_user_id}),
                     !.user_chats[user_id] = r.chat_id,
                     !.user_chats[target_user_id] = r.chat_id],
            chat_id |-> r.chat_id]

\* An OPEN_CHAT frame arrives on s.  target = NoUser stands for a frame that
\* OpenChatMessage(**data) rejects.
OpenChat(s, target, tname) ==
  /\ handler[s].pc = "main"
  /\ transport[s] = "open"
  /\ CanReceive
  /\ LET u == handler[s].user_id
         h == HandleOpenChat(Cur, u, target)
         frame == ChatOpenedMessage(h.chat_id, <<u, target>>, target, tname)
     IN  IF target = NoUser
         THEN /\ ev' = Event("open_chat", s, u, TRUE, {Response(s, u, "INVALID_OPEN_CHAT")},
                             "INVALID_OPEN_CHAT")
              /\ UNCHANGED <<mgrVars, handler>>
         ELSE IF h.kind = "not_found"
         THEN /\ ev' = Event("open_chat", s, u, TRUE, {Response(s, u, "USER_NOT_FOUND")},
                             "USER_NOT_FOUND")
              /\ UNCHANGED <<mgrVars, handler>>
         ELSE /\ h.m.uuid_next <= MaxUuid + 1
              /\ \E fk \in Raises(h.m, u) :
                   LET r == SendPersonalMessage(h.m, frame, u, fk) IN
                   /\ Commit(r.m)
                   /\ IF h.kind = "existing"
                      THEN /\ handler' = handler
                           /\ ev' = Event("open_chat", s, u, TRUE, {r.rec}, "existing")
                      ELSE /\ handler' = [handler EXCEPT ![s] =
                                 [pc |-> "fanout", user_id |-> u, op |-> "open_chat",
                                  pend |-> {target}, frame |-> frame, ok |-> TRUE,
                                  last |-> NoUser, reached |-> TRUE]]
                           /\ ev' = Event("open_chat", s, u, FALSE, {r.rec}, "opened")
  /\ UNCHANGED <<transport, offline_for, cleaned, closes>>

\* The content of a MSG frame, by its length.
ContentLens == {0, 1, MaxMessageLength + 1}
\* The MSG frames a client sends: the first or the last chat id, any of the
\* contents.
MsgData == [chat_id : {1, MaxUuid}, content : ContentLens]

\* The chat a MSG goes to, were it read out of the frame.
ResolveChatFromFrame(m, user_id, data) == data.chat_id

\* chat_id = self.user_chats[user_id]: the chat a MSG goes to.
ResolveChat(m, user_id, data) == m.user_chats[user_id]

\* "Ensure user is in the chat session": a session that is gone is made anew,
\* at the end of the dict, and the sender is added.
EnsureInSession(m, chat_id, user_id) ==
  LET members == IF DictHas(m.chat_sessions, chat_id) THEN DictGet(m.chat_sessions, chat_id)
                 ELSE {}
  IN  [m EXCEPT !.chat_sessions = DictPut(@, chat_id, members \cup {user_id})]

\* The participants send_to_chat_with_ack writes to.
Recipients(m, chat_id, exclude_user) ==
  IF DictHas(m.chat_sessions, chat_id) THEN DictGet(m.chat_sessions, chat_id) \ {exclude_user}
  ELSE {}

\* handle_chat_message that pairs a sender without an active chat with nobody.
HandleChatMessageNoPairing(m, user_id, data, other_user_id) ==
  [kind |-> "NOT_IN_CHAT", m |-> m, chat_id |-> NoChat, frame |-> NoFrame]

\* handle_chat_message up to its first send.  other_user_id is the first key
\* of active_connections that is not user_id (NoUser: there is none); the
\* model lets it be any of them.
HandleChatMessage(m, user_id, data, other_user_id) ==
  LET paired == CreateOrGetChat(m, user_id, other_user_id)
      m1 == IF m.user_chats[user_id] = NoChat THEN paired.m ELSE m
      chat_id == IF m.user_chats[user_id] = NoChat THEN paired.chat_id
                 ELSE ResolveChat(m, user_id, data)
      m2 == EnsureInSession(m1, chat_id, user_id)
      message_id == m2.uuid_next
  IN  IF m.user_chats[user_id] = NoChat /\ other_user_id = NoUser
      THEN [kind |-> "NOT_IN_CHAT", m |-> m, chat_id |-> NoChat, frame |-> NoFrame]
      ELSE IF data.content = 0 \/ data.content > MaxMessageLength
      THEN [kind |-> "VALIDATION", m |-> m2, chat_id |-> chat_id, frame |-> NoFrame]
      ELSE [kind |-> "send", m |-> [m2 EXCEPT !.uuid_next = @ + 1], chat_id |-> chat_id,
            frame |-> MsgMessage(message_id, data.content, user_id,
                                 UserInfoGet(m2, user_id, "Unknown"))]

\* A MSG frame arrives on s.
Msg(s, data) ==
  /\ ReceivesNext(s)
  /\ transport[s] = "open"
  /\ LET u == handler[s].user_id
         others == IF user_chats[u] = NoChat /\ OtherKeys(Cur, u) # {}
                   THEN OtherKeys(Cur, u) ELSE {NoUser}
     IN  \E other \in others :
           LET h == HandleChatMessage(Cur, u, data, other)
               recipients == Recipients(h.m, h.chat_id, u)
           IN  IF h.kind # "send"
               THEN /\ Commit(h.m)
                    /\ handler' = handler
                    /\ ev' = Event("msg", s, u, TRUE, {Response(s, u, h.kind)}, h.kind)
               ELSE /\ h.m.uuid_next <= MaxUuid + 1
                    /\ IF recipients = {}
                       THEN \E fk \in Raises(h.m, u) :
                              LET r == SendPersonalMessage(h.m,
                                          MsgAck(h.frame.message_id, "delivered"), u, fk)
                              IN  /\ Commit(r.m)
                                  /\ handler' = handler
                                  /\ ev' = Event("msg", s, u, TRUE, {r.rec}, "none")
                       ELSE \E uid \in recipients : \E fk \in Raises(h.m, uid) :
                              LET r == SendPersonalMessage(h.m, h.frame, uid, fk) IN
                              /\ Commit(r.m)
                              /\ handler' = [handler EXCEPT ![s] =
                                    [pc |-> IF recipients = {uid} THEN "msg_ack" ELSE "fanout",
                                     user_id |-> u, op |-> "msg", pend |-> recipients \ {uid},
                                     frame |-> h.frame, ok |-> TRUE, last |-> uid,
                                     reached |-> r.rec.res = "delivered"]]
                              /\ ev' = Event("msg", s, u, FALSE, {r.rec}, "none")
  /\ UNCHANGED <<transport, offline_for, cleaned, closes>>

\* delivery_success that no recipient's absence turns False.
DeliverySuccessAlways(m, h) == TRUE

\* delivery_success when send_to_chat_with_ack resumes from its last write:
\* False once a recipient is not in active_connections after its write.
DeliverySuccess(m, h) == h.ok /\ IsOnline(m, h.last)

\* The fan-out of a MSG is over: MSG_ACK goes to the sender, "delivered" when
\* every recipient was still registered after its write, "pending" otherwise.
\* (The loop is over the session's set itself; nothing that runs between its
\* writes here adds to or removes from a session.)
SendMsgAck(s) ==
  /\ handler[s].pc = "msg_ack"
  /\ \E fk \in Raises(Cur, handler[s].user_id) :
       LET h == handler[s]
           r == SendPersonalMessage(Cur,
                   MsgAck(h.frame.message_id,
                          IF DeliverySuccess(Cur, h) THEN "delivered" ELSE "pending"),
                   h.user_id, fk)
       IN  /\ Commit(r.m)
           /\ handler' = [handler EXCEPT ![s] = MainLoop(h.user_id)]
           /\ ev' = Event("msg_ack", s, h.user_id, TRUE, {r.rec}, "none")
  /\ UNCHANGED <<transport, offline_for, cleaned, closes>>

\* The TYPING frame handle_typing fans out.
TypingMessage(user_id, display_name, is_typing) ==
  [type |-> "TYPING", user_id |-> user_id, display_name |-> display_name,
   is_typing |-> is_typing]

\* handle_typing up to its first send: NOT_IN_CHAT without an active chat, and
\* when the session user_chats names is gone or does not hold user_id;
\* otherwise user_id is added to or discarded from the typing set of the chat
\* (a set left empty is deleted).
HandleTyping(m, user_id, is_typing) ==
  LET chat_id == m.user_chats[user_id]
      frame == TypingMessage(user_id, UserInfoGet(m, user_id, "Unknown"), is_typing)
  IN  IF chat_id = NoChat
      THEN [kind |-> "NOT_IN_CHAT", m |-> m, chat_id |-> NoChat, frame |-> NoFrame]
      ELSE IF ~DictHas(m.chat_sessions, chat_id)
              \/ user_id \notin DictGet(m.chat_sessions, chat_id)
      THEN [kind |-> "NOT_IN_CHAT", m |-> m, chat_id |-> chat_id, frame |-> NoFrame]
      ELSE [kind |-> "send",
            m |-> [m EXCEPT !.typing_users[chat_id] =
                               IF is_typing THEN @ \cup {user_id} ELSE @ \ {user_id}],
            chat_id |-> chat_id, frame |-> frame]

\* A TYPING frame arrives on s; send_to_chat writes to the other participants.
Typing(s, is_typing) ==
  /\ ReceivesNext(s)
  /\ transport[s] = "open"
  /\ LET u == handler[s].user_id
         h == HandleTyping(Cur, u, is_typing)
         recipients == Recipients(h.m, h.chat_id, u)
     IN  IF h.kind # "send"
         THEN /\ UNCHANGED mgrVars
              /\ handler' = handler
              /\ ev' = Event("typing", s, u, TRUE, {Response(s, u, h.kind)}, h.kind)
         ELSE IF recipients = {}
         THEN /\ Commit(h.m)
              /\ handler' = handler
              /\ ev' = Event("typing", s, u, TRUE, {}, "none")
         ELSE \E uid \in recipients : \E fk \in Raises(h.m, uid) :
                LET r == SendPersonalMessage(h.m, h.frame, uid, fk) IN
                /\ Commit(r.m)
                /\ handler' = [handler EXCEPT ![s] =
                      IF recipients = {uid} THEN MainLoop(u)
                      ELSE [pc |-> "fanout", user_id |-> u, op |-> "typing",
                            pend |-> recipients \ {uid}, frame |-> h.frame, ok |-> TRUE,
                            last |-> NoUser, reached |-> TRUE]]
                /\ ev' = Event("typing", s, u, recipients = {uid}, {r.rec}, "none")
  /\ UNCHANGED <<transport, offline_for, cleaned, closes>>

(***************************************************************************)
(* disconnect(user_id), and the tasks it and connect_without_broadcast     *)
(* create.                                                                 *)
(***************************************************************************)

\* receive_text raises WebSocketDisconnect on a closed transport; the endpoint
\* leaves its loop and its finally block calls disconnect(user_id).
\* disconnect does nothing for an identity that is not registered.
\* This may happen while another handler is between two writes of a fan-out.
HandlerExit(s) ==
  /\ handler[s].pc = "main"
  /\ transport[s] = "closed"
  /\ restore_tasks = {}
  /\ closes' = closes
  /\ cleaned' = IF IsOnline(Cur, handler[s].user_id) THEN cleaned \ {handler[s].user_id}
                ELSE cleaned
  /\ LET u == handler[s].user_id IN
     IF ~DisconnectApplies(Cur, u)
     THEN /\ handler' = [handler EXCEPT ![s] = FreeHandler]
          /\ transport' = [transport EXCEPT ![s] = "none"]
          /\ ev' = Event("exit", s, u, TRUE, {}, "none")
          /\ UNCHANGED <<mgrVars, offline_for>>
     ELSE /\ offline_for' = [offline_for EXCEPT ![u] = 0]
          /\ LET m1 == DisconnectRemove(Cur, u)
                 frame == DisconnectMessage(Cur, u)
                 others == OtherKeys(m1, u)
             IN  IF others = {}
                 THEN /\ Commit(ScheduleCleanup(m1, u))
                      /\ handler' = [handler EXCEPT ![s] = FreeHandler]
                      /\ transport' = [transport EXCEPT ![s] = "none"]
                      /\ ev' = Event("disconnect", s, u, TRUE, {}, "none")
                 ELSE \E uid \in others : \E fk \in Raises(m1, uid) :
                        LET r == SendPersonalMessage(m1, frame, uid, fk) IN
                        IF others = {uid}
                        THEN /\ Commit(ScheduleCleanup(r.m, u))
                             /\ handler' = [handler EXCEPT ![s] = FreeHandler]
                             /\ transport' = [transport EXCEPT ![s] = "none"]
                             /\ ev' = Event("disconnect", s, u, TRUE, {r.rec}, "none")
                        ELSE /\ Commit(r.m)
                             /\ handler' = [handler EXCEPT ![s] =
                                   [pc |-> "fanout", user_id |-> u, op |-> "disconnect",
                                    pend |-> others \ {uid}, frame |-> frame, ok |-> TRUE,
                                    last |-> NoUser, reached |-> TRUE]]
                             /\ transport' = transport
                             /\ ev' = Event("disconnect", s, u, FALSE, {r.rec}, "none")

\* The restore_user_chat_session task runs.
Restore(u) ==
  /\ u \in restore_tasks
  /\ CanRun
  /\ \E other \in RestoreCandidates(Cur, u) : \E fk \in Raises(Cur, u) :
       LET r == RestoreUserChatSession([Cur EXCEPT !.restore_tasks = @ \ {u}], u, other, fk)
       IN  /\ Commit(r.m)
           /\ ev' = Event("restore", NoSock, u, TRUE, r.log, "none")
  /\ offline_for' = [offline_for EXCEPT ![u] = Never]
  /\ cleaned' = cleaned \ {u}
  /\ UNCHANGED <<transport, handler, closes>>

\* A delayed_cleanup_user_chats task wakes up.
CleanupFire(u) ==
  /\ BagIn(<<u, 0>>, cleanup_tasks)
  /\ CanRun
  /\ Commit(DelayedCleanupUserChats(Cur, u))
  /\ ev' = Event("cleanup", NoSock, u, TRUE, {}, "none")
  /\ cleaned' = IF IsOnline(Cur, u) THEN cleaned ELSE cleaned \cup {u}
  /\ UNCHANGED <<transport, handler, offline_for, closes>>

\* d seconds pass with no other event.  Tasks that are ready to run (a restore
\* task, a cleanup task whose sleep is over, a handler inside an operation)
\* run first.
Tick(d) ==
  /\ restore_tasks = {}
  /\ Busy = {}
  /\ \A e \in BagToSet(cleanup_tasks) : e[2] >= d
  /\ cleanup_tasks # EmptyBag \/ \E u \in Users : offline_for[u] \in 0..(GracePeriod - 1)
  /\ cleanup_tasks' = [e \in {<<x[1], x[2] - d>> : x \in BagToSet(cleanup_tasks)} |->
                          cleanup_tasks[<<e[1], e[2] + d>>]]
  /\ offline_for' = [u \in Users |->
        IF offline_for[u] = Never THEN Never
        ELSE IF offline_for[u] + d < GracePeriod THEN offline_for[u] + d ELSE GracePeriod]
  /\ ev' = NoEv
  /\ UNCHANGED <<active_connections, user_info, last_ping, chat_sessions, user_chats,
                 typing_users, uuid_next, restore_tasks, transport, handler, cleaned, closes,
                 last_ping_age, connection_activity, rlVars, liveVars>>

Next ==
  \/ \E s \in Sockets : ClientClose(s)
  \/ \E s \in Sockets : Hello(s, OneEach[s])
  \/ \E s \in Sockets : HelloRequired(s)
  \/ \E s \in Sockets : FirstFrameInvalidJson(s)
  \/ \E s \in Sockets : FirstFrameNotObject(s)
  \/ \E s \in Sockets : ConnectSelf(s)
  \/ \E s \in Sockets : ConnectOthers(s)
  \/ \E s \in Sockets : FanOutStep(s)
  \/ \E s \in Sockets : \E target \in Targets(s) \cup {NoUser} :
        \E tname \in TargetNames(target) : OpenChat(s, target, tname)
  \/ \E s \in Sockets, data \in MsgData : Msg(s, data)
  \/ \E s \in Sockets : SendMsgAck(s)
  \/ \E s \in Sockets : HandlerExit(s)
  \/ \E u \in Users : Restore(u)
  \/ \E u \in Users : CleanupFire(u)
  \/ Tick(GracePeriod)

Spec == Init /\ [][Next]_vars

\* The same endpoint with a second client that announces A's identity, on the
\* third transport, and no MSG frames.
NextTwoForA ==
  \/ \E s \in Sockets : ClientCloseUpTo(s, MaxClosesTwoForA)
  \/ \E s \in Sockets : Hello(s, TwoForA[s])
  \/ \E s \in Sockets : ConnectSelf(s)
  \/ \E s \in Sockets : ConnectOthers(s)
  \/ \E s \in Sockets : FanOutStep(s)
  \/ \E s \in Sockets : \E target \in Targets(s) :
        \E tname \in TargetNames(target) : OpenChat(s, target, tname)
  \/ \E s \in Sockets : HandlerExit(s)
  \/ \E u \in Users : Restore(u)
  \/ \E u \in Users : CleanupFire(u)
  \/ Tick(GracePeriod)

SpecTwoForA == Init /\ [][NextTwoForA]_vars

\* The endpoint with TYPING frames: the clients of A and of B send OPEN_CHAT,
\* MSG of one character and TYPING; the client of C connects and goes away.
TypingSockets == {s \in Sockets : OneEach[s] \in {"A", "B"}}
NextTyping ==
  \/ \E s \in Sockets : ClientClose(s)
  \/ \E s \in Sockets : Hello(s, OneEach[s])
  \/ \E s \in Sockets : ConnectSelf(s)
  \/ \E s \in Sockets : ConnectOthers(s)
  \/ \E s \in Sockets : FanOutStep(s)
  \/ \E s \in TypingSockets : \E target \in Targets(s) :
        \E tname \in TargetNames(target) : OpenChat(s, target, tname)
  \/ \E s \in TypingSockets : Msg(s, [chat_id |-> 1, content |-> 1])
  \/ \E s \in TypingSockets : SendMsgAck(s)
  \/ \E s \in TypingSockets, is_typing \in BOOLEAN : Typing(s, is_typing)
  \/ \E s \in Sockets : HandlerExit(s)
  \/ \E u \in Users : Restore(u)
  \/ \E u \in Users : CleanupFire(u)
  \/ Tick(GracePeriod)

SpecTyping == Init /\ [][NextTyping]_vars


\* The endpoint with time passing in steps shorter than GracePeriod: the
\* clients of A and of B connect, open chats and go away, twice at most.
GraceSteps == {2, 3}
NextGrace ==
  \/ \E s \in Sockets : ClientCloseUpTo(s, MaxClosesTwoForA)
  \/ \E s \in TypingSockets : Hello(s, OneEach[s])
  \/ \E s \in Sockets : ConnectSelf(s)
  \/ \E s \in Sockets : ConnectOthers(s)
  \/ \E s \in Sockets : FanOutStep(s)
  \/ \E s \in Sockets : \E target \in Targets(s) :
        \E tname \in TargetNames(target) : OpenChat(s, target, tname)
  \/ \E s \in Sockets : HandlerExit(s)
  \/ \E u \in Users : Restore(u)
  \/ \E u \in Users : CleanupFire(u)
  \/ \E d \in GraceSteps : Tick(d)

SpecGrace == Init /\ [][NextGrace]_vars

(***************************************************************************)
(* The main loop as websocket_endpoint runs it, and start_ping_task.       *)
(*                                                                         *)
(* A PING is answered by the endpoint itself and a PONG is dropped; every  *)
(* other frame goes to connection_manager.handle_message(websocket,        *)
(* message_data).  handle_message takes (websocket, user_id, data): the    *)
(* call raises TypeError before any line of handle_message runs, and the   *)
(* endpoint's except Exception answers ERROR INTERNAL_ERROR.               *)
(***************************************************************************)

\* What the last step did, for a frame of the given type.
RouterEvent(op, s, u, log, resp, message_type) ==
  [op |-> op, sock |-> s, user |-> u, fin |-> TRUE, log |-> log, resp |-> resp,
   type |-> message_type]

\* if message_data.get("type") == "PING": send_text({"type": "PONG"}); continue
RouterPing(s) ==
  /\ handler[s].pc = "main"
  /\ transport[s] = "open"
  /\ CanReceive
  /\ heard_age' = [heard_age EXCEPT ![handler[s].user_id] = 0]
  /\ ev' = RouterEvent("ping", s, handler[s].user_id,
                       {Sent(handler[s].user_id, s, Pong, "delivered")}, "none", "PING")
  /\ UNCHANGED <<coreVars, sweep_in, sweeping, taskVars, transport, handler, offline_for,
                 cleaned, closes>>

\* if message_data.get("type") == "PONG": continue
RouterPong(s) ==
  /\ handler[s].pc = "main"
  /\ transport[s] = "open"
  /\ CanReceive
  /\ heard_age' = [heard_age EXCEPT ![handler[s].user_id] = 0]
  /\ ev' = RouterEvent("pong", s, handler[s].user_id, {}, "none", "PONG")
  /\ UNCHANGED <<coreVars, sweep_in, sweeping, taskVars, transport, handler, offline_for,
                 cleaned, closes>>

\* The types of the frames a client sends that are neither PING nor PONG;
\* "STATUS" is a type the manager does not know.
FrameTypes == {"MSG", "STATUS"}

\* except Exception in the main loop, when ERROR INTERNAL_ERROR has been
\* written: the loop goes on.
OnException(h) == MainLoop(h.user_id)

\* Any other frame: the call of handle_message raises TypeError, ERROR
\* INTERNAL_ERROR is written and the loop goes on.
RouterFrame(s, message_type) ==
  /\ handler[s].pc = "main"
  /\ transport[s] = "open"
  /\ CanReceive
  /\ handler' = [handler EXCEPT ![s] = OnException(handler[s])]
  /\ heard_age' = [heard_age EXCEPT ![handler[s].user_id] = 0]
  /\ ev' = RouterEvent("frame", s, handler[s].user_id,
                       {Sent(handler[s].user_id, s, ErrorMessage("INTERNAL_ERROR"), "delivered")},
                       "INTERNAL_ERROR", message_type)
  /\ UNCHANGED <<coreVars, sweep_in, sweeping, taskVars, transport, offline_for, cleaned,
                 closes>>

\* self.ping_interval * self.ping_miss_threshold
LivenessTimeout == ping_interval * ping_miss_threshold

\* An age after d more seconds; ages above LivenessTimeout are not told apart.
Aged(age, d) ==
  IF age = NoAge THEN NoAge
  ELSE IF age + d > LivenessTimeout THEN LivenessTimeout + 1 ELSE age + d

\* The seconds until the next sleep ends: that of start_ping_task or that of a
\* delayed_cleanup_user_chats task.
NextTimer ==
  LET due == {sweep_in} \cup {e[2] : e \in BagToSet(cleanup_tasks)}
  IN  CHOOSE d \in due : \A x \in due : d <= x

\* Time passes until the next sleep ends.  Tasks that are ready to run run
\* first.
LiveTick ==
  /\ restore_tasks = {}
  /\ CanRun
  /\ NextTimer > 0
  /\ LET d == NextTimer IN
     /\ cleanup_tasks' = [e \in {<<x[1], x[2] - d>> : x \in BagToSet(cleanup_tasks)} |->
                             cleanup_tasks[<<e[1], e[2] + d>>]]
     /\ offline_for' = [u \in Users |->
           IF offline_for[u] = Never THEN Never
           ELSE IF offline_for[u] + d < GracePeriod THEN offline_for[u] + d ELSE GracePeriod]
     /\ last_ping_age' = [u \in Users |-> Aged(last_ping_age[u], d)]
     /\ connection_activity' = [u \in Users |-> Aged(connection_activity[u], d)]
     /\ heard_age' = [u \in Users |-> Aged(heard_age[u], d)]
     /\ sweep_in' = sweep_in - d
  /\ ev' = NoEv
  /\ UNCHANGED <<active_connections, user_info, last_ping, chat_sessions, user_chats,
                 typing_users, uuid_next, restore_tasks, transport, handler, cleaned, closes,
                 rlVars, sweeping, taskVars>>

\* start_ping_task wakes up: list(self.active_connections.keys()), and it
\* sleeps again when it has looked at all of them.
SweepStart ==
  /\ running
  /\ ping_task.pc = "loop"
  /\ sweep_in = 0
  /\ CanRun
  /\ sweeping' = OnlineSet(Cur)
  /\ sweep_in' = ping_interval
  /\ ev' = Event("sweep", NoSock, NoUser, TRUE, {}, "none")
  /\ UNCHANGED <<coreVars, heard_age, taskVars, transport, handler, offline_for, cleaned,
                 closes>>

TimedOutAtThreshold(m, user_id) ==
  user_id \in m.last_ping /\ m.last_ping_age[user_id] >= LivenessTimeout

\* if user_id in self.last_ping: time_diff > ping_interval * ping_miss_threshold
TimedOut(m, user_id) ==
  user_id \in m.last_ping /\ m.last_ping_age[user_id] > LivenessTimeout

\* The frames one broadcast writes, to the identities of the set to: fks says
\* what the write to each of them raises.
RECURSIVE SendAll(_, _, _, _)
SendAll(m, message, to, fks) ==
  IF to = {} THEN [m |-> m, log |-> {}]
  ELSE LET uid == CHOOSE x \in to : TRUE
           r == SendPersonalMessage(m, message, uid, fks[uid])
           rest == SendAll(r.m, message, to \ {uid}, fks)
       IN  [m |-> rest.m, log |-> rest.log \cup {r.rec}]

\* disconnect(user_id) as start_ping_task awaits it: the manager afterwards
\* and the frames written.
Disconnect(m, user_id, fks) ==
  IF ~DisconnectApplies(m, user_id) THEN [m |-> m, log |-> {}]
  ELSE LET m1 == DisconnectRemove(m, user_id)
           r == SendAll(m1, DisconnectMessage(m, user_id), OtherKeys(m1, user_id), fks)
       IN  [m |-> ScheduleCleanup(r.m, user_id), log |-> r.log]

\* start_ping_task looks at the next identity of its list.
MonitorLook(u) ==
  /\ ping_task.pc = "loop"
  /\ u \in sweeping
  /\ Busy = {}
  /\ sweeping' = sweeping \ {u}
  /\ IF TimedOut(Cur, u)
     THEN \E fks \in [Users -> FailKinds \cup {NoFail}] :
            /\ \A x \in Users : fks[x] \in Raises(Cur, x)
            /\ LET r == Disconnect(Cur, u, fks) IN
               /\ CommitFields(r.m)
               /\ ev' = Event("timeout", NoSock, u, TRUE, r.log, "none")
            /\ offline_for' = IF IsOnline(Cur, u) THEN [offline_for EXCEPT ![u] = 0]
                              ELSE offline_for
            /\ cleaned' = IF IsOnline(Cur, u) THEN cleaned \ {u} ELSE cleaned
     ELSE /\ ev' = Event("alive", NoSock, u, TRUE, {}, "none")
          /\ UNCHANGED <<coreVars, offline_for, cleaned>>
  /\ UNCHANGED <<rlGhost, sweep_in, heard_age, taskVars, transport, handler, closes>>

\* supported_types of handle_message.
supported_types == {"HELLO", "OPEN_CHAT", "MSG", "MSG_ACK", "TYPING", "PING", "PONG"}

\* The clients the specification with start_ping_task follows: that of A
\* sends frames that are neither PING nor PONG, that of B sends PING and PONG.
\* With two identities every fan-out has at most one write, so no handler is
\* ever between two writes of one.
FrameSockets == {s \in Sockets : OneEach[s] = "A"}
PingSockets == {s \in Sockets : OneEach[s] = "B"}
LiveSockets == FrameSockets \cup PingSockets

NextLive ==
  \/ \E s \in Sockets : ClientClose(s)
  \/ \E s \in LiveSockets : Hello(s, OneEach[s])
  \/ \E s \in Sockets : ConnectSelf(s)
  \/ \E s \in Sockets : ConnectOthers(s)
  \/ \E s \in PingSockets : RouterPing(s)
  \/ \E s \in PingSockets : RouterPong(s)
  \/ \E s \in FrameSockets, message_type \in FrameTypes : RouterFrame(s, message_type)
  \/ \E s \in Sockets : HandlerExit(s)
  \/ \E u \in Users : Restore(u)
  \/ \E u \in Users : CleanupFire(u)
  \/ LiveTick
  \/ SweepStart
  \/ \E u \in Users : MonitorLook(u)

SpecLive == Init /\ [][NextLive]_vars

(***************************************************************************)
(* start_ping_task next to the chat handlers, each called with the         *)
(* identity of the handler that took the frame: the monitor's disconnect   *)
(* leaves the transport of the identity it removes open and its handler in *)
(* the main loop.                                                          *)
(***************************************************************************)
NextMonitor ==
  \/ \E s \in Sockets : ClientClose(s)
  \/ \E s \in LiveSockets : Hello(s, OneEach[s])
  \/ \E s \in Sockets : ConnectSelf(s)
  \/ \E s \in Sockets : ConnectOthers(s)
  \/ \E s \in Sockets : FanOutStep(s)
  \/ \E s \in FrameSockets : \E target \in Targets(s) :
        \E tname \in TargetNames(target) : OpenChat(s, target, tname)
  \/ \E s \in FrameSockets : Msg(s, [chat_id |-> 1, content |-> 1])
  \/ \E s \in FrameSockets : SendMsgAck(s)
  \/ \E s \in FrameSockets : Typing(s, TRUE)
  \/ \E s \in Sockets : HandlerExit(s)
  \/ \E u \in Users : Restore(u)
  \/ \E u \in Users : CleanupFire(u)
  \/ LiveTick
  \/ SweepStart
  \/ \E u \in Users : MonitorLook(u)

SpecMonitor == Init /\ [][NextMonitor]_vars

(***************************************************************************)
(* start_background_tasks and stop_background_tasks, with both tasks they  *)
(* create and cancel.  disconnect() as start_ping_task awaits it is taken  *)
(* write by write: the task is suspended in the send_text of a PRESENCE    *)
(* frame when a cancellation reaches it there.                             *)
(***************************************************************************)

\* if time_diff > 300 of cleanup_stale_connections
stale_after == 300

\* '{"type":"PING"}', the text cleanup_stale_connections writes.
PingText == [type |-> "PING"]

\* An age after d more seconds; ages above cap are not told apart.
AgedUpTo(age, d, cap) ==
  IF age = NoAge THEN NoAge
  ELSE IF age + d > cap THEN cap + 1 ELSE age + d

\* The sleeps that are under way: those of the two background tasks while
\* they live, and those of the delayed_cleanup_user_chats tasks.
Sleeps ==
  (IF ping_task.pc = "loop" THEN {sweep_in} ELSE {})
    \cup (IF cleanup_task.pc = "loop" THEN {cleanup_task.wake_in} ELSE {})
    \cup {e[2] : e \in BagToSet(cleanup_tasks)}

\* The seconds until the next sleep ends; ping_interval seconds when nothing
\* sleeps.
NextWake ==
  IF Sleeps = {} THEN ping_interval
  ELSE CHOOSE d \in Sleeps : \A x \in Sleeps : d <= x

\* Time passes until the next sleep ends.  Tasks that are ready to run run
\* first.
LifeTick ==
  /\ restore_tasks = {}
  /\ CanRun
  /\ NextWake > 0
  /\ LET d == NextWake IN
     /\ cleanup_tasks' = [e \in {<<x[1], x[2] - d>> : x \in BagToSet(cleanup_tasks)} |->
                             cleanup_tasks[<<e[1], e[2] + d>>]]
     /\ offline_for' = [u \in Users |->
           IF offline_for[u] = Never THEN Never
           ELSE IF offline_for[u] + d < GracePeriod THEN offline_for[u] + d ELSE GracePeriod]
     /\ last_ping_age' = [u \in Users |-> Aged(last_ping_age[u], d)]
     /\ connection_activity' =
          [u \in Users |-> AgedUpTo(connection_activity[u], d, stale_after)]
     /\ heard_age' = [u \in Users |-> Aged(heard_age[u], d)]
     /\ sweep_in' = IF ping_task.pc = "loop" THEN sweep_in - d ELSE sweep_in
     /\ cleanup_task' = IF cleanup_task.pc = "loop"
                        THEN CleanupLoop(cleanup_task.wake_in - d) ELSE cleanup_task
  /\ ev' = NoEv
  /\ UNCHANGED <<active_connections, user_info, last_ping, chat_sessions, user_chats,
                 typing_users, uuid_next, restore_tasks, transport, handler, cleaned, closes,
                 rlVars, sweeping, running, ping_task>>

\* start_ping_task looks at the next identity of its list.  disconnect() of
\* one that timed out removes it from the registry and runs
\* _cleanup_disconnected_user; with nobody else registered it goes on to
\* create the cleanup task, otherwise the task is suspended in the first
\* send_text of the broadcast.
MonitorBegin(u) ==
  /\ ping_task.pc = "loop"
  /\ u \in sweeping
  /\ Busy = {}
  /\ sweeping' = sweeping \ {u}
  /\ IF TimedOut(Cur, u) /\ DisconnectApplies(Cur, u)
     THEN LET m1 == DisconnectRemove(Cur, u)
              others == OtherKeys(m1, u)
          IN  /\ IF others = {}
                 THEN /\ CommitFields(ScheduleCleanup(m1, u))
                      /\ ping_task' = ping_task
                      /\ ev' = Event("timeout", NoSock, u, TRUE, {}, "none")
                 ELSE /\ CommitFields(m1)
                      /\ ping_task' = [pc |-> "disconnect", user |-> u, pend |-> others,
                                       frame |-> DisconnectMessage(Cur, u)]
                      /\ ev' = Event("timeout", NoSock, u, FALSE, {}, "none")
              /\ offline_for' = [offline_for EXCEPT ![u] = 0]
              /\ cleaned' = cleaned \ {u}
     ELSE /\ ev' = Event("alive", NoSock, u, TRUE, {}, "none")
          /\ UNCHANGED <<coreVars, ping_task, offline_for, cleaned>>
  /\ UNCHANGED <<rlGhost, sweep_in, heard_age, running, cleanup_task, transport, handler,
                 closes>>

\* The send_text the broadcast of that disconnect() is suspended in returns
\* or raises; after the last one disconnect() creates the cleanup task and
\* start_ping_task goes on with its list.
MonitorWrite ==
  /\ ping_task.pc = "disconnect"
  /\ Busy = {}
  /\ \E uid \in ping_task.pend : \E fk \in Raises(Cur, uid) :
       LET r == SendPersonalMessage(Cur, ping_task.frame, uid, fk)
           last == ping_task.pend = {uid}
       IN  /\ CommitFields(IF last THEN ScheduleCleanup(r.m, ping_task.user) ELSE r.m)
           /\ ping_task' = IF last THEN PingLoop ELSE [ping_task EXCEPT !.pend = @ \ {uid}]
           /\ ev' = Event("presence", NoSock, ping_task.user, last, {r.rec}, "none")
  /\ UNCHANGED <<rlGhost, sweep_in, sweeping, heard_age, running, cleanup_task, transport,
                 handler, offline_for, cleaned, closes>>

\* disconnect() of each identity of a list, one after the other.
RECURSIVE DisconnectAll(_, _, _)
DisconnectAll(m, stale_connections, fks) ==
  IF stale_connections = {} THEN [m |-> m, log |-> {}]
  ELSE LET user_id == CHOOSE x \in stale_connections : TRUE
           r == Disconnect(m, user_id, fks)
           rest == DisconnectAll(r.m, stale_connections \ {user_id}, fks)
       IN  [m |-> rest.m, log |-> r.log \cup rest.log]

\* start_cleanup_task wakes up and runs cleanup_stale_connections: the
\* identities whose connection_activity is more than stale_after seconds old
\* are written a PING text, and those for which that write raises are
\* disconnected.  The task then sleeps again.
StaleCleanup ==
  /\ running
  /\ cleanup_task.pc = "loop"
  /\ cleanup_task.wake_in = 0
  /\ CanRun
  /\ LET probed == {u \in OnlineSet(Cur) : /\ connection_activity[u] # NoAge
                                           /\ connection_activity[u] > stale_after}
         stale_connections == {u \in probed : transport[active_connections[u]] # "open"}
     IN  \E fks \in [Users -> FailKinds \cup {NoFail}] :
           /\ \A x \in Users : fks[x] \in Raises(Cur, x)
           /\ LET r == DisconnectAll(Cur, stale_connections, fks) IN
              /\ CommitFields(r.m)
              /\ ev' = Event("stale", NoSock, NoUser, TRUE,
                             r.log \cup {Sent(u, active_connections[u], PingText, "delivered") :
                                           u \in probed \ stale_connections},
                             "none")
           /\ offline_for' = [u \in Users |->
                                IF u \in stale_connections THEN 0 ELSE offline_for[u]]
           /\ cleaned' = cleaned \ stale_connections
  /\ cleanup_task' = CleanupLoop(cleanup_sleep)
  /\ UNCHANGED <<rlGhost, sweep_in, sweeping, heard_age, running, ping_task, transport,
                 handler, closes>>

\* start_background_tasks: nothing when _running is set; otherwise it sets it
\* and creates both tasks, which go to sleep.
StartBackgroundTasks ==
  /\ Busy = {}
  /\ sweeping = {} \/ ping_task.pc = "disconnect"
  /\ IF running
     THEN /\ ev' = Event("start", NoSock, NoUser, TRUE, {}, "running")
          /\ UNCHANGED <<taskVars, sweep_in>>
     ELSE /\ running' = TRUE
          /\ ping_task' = PingLoop
          /\ cleanup_task' = CleanupLoop(cleanup_sleep)
          /\ sweep_in' = ping_interval
          /\ ev' = Event("start", NoSock, NoUser, TRUE, {}, "started")
  /\ UNCHANGED <<coreVars, sweeping, heard_age, transport, handler, offline_for, cleaned,
                 closes>>

\* stop_background_tasks: nothing when _running is not set; otherwise it
\* clears it, cancels both tasks and awaits them.  CancelledError is raised in
\* each task where it is suspended: in its sleep, or in the send_text of the
\* disconnect() start_ping_task awaits.  No except clause on the way up
\* catches it before that of the task's loop, which leaves the loop: the rest
\* of disconnect() does not run.  The write that was under way has reached
\* its peer or has not.
StopBackgroundTasks ==
  /\ Busy = {}
  /\ sweeping = {} \/ ping_task.pc = "disconnect"
  /\ IF ~running
     THEN /\ ev' = Event("stop", NoSock, NoUser, TRUE, {}, "idle")
          /\ UNCHANGED <<taskVars, sweeping>>
     ELSE /\ running' = FALSE
          /\ ping_task' = [PingLoop EXCEPT !.pc = "done"]
          /\ cleanup_task' = [cleanup_task EXCEPT !.pc = "done"]
          /\ sweeping' = {}
          /\ IF ping_task.pc = "disconnect"
             THEN \E uid \in ping_task.pend : \E written \in BOOLEAN :
                    ev' = Event("stop", NoSock, ping_task.user, TRUE,
                                IF written /\ IsOnline(Cur, uid)
                                THEN {Sent(uid, active_connections[uid], ping_task.frame,
                                           "delivered")}
                                ELSE {},
                                "stopped")
             ELSE ev' = Event("stop", NoSock, NoUser, TRUE, {}, "stopped")
  /\ UNCHANGED <<coreVars, sweep_in, heard_age, transport, handler, offline_for, cleaned,
                 closes>>

NextLifecycle ==
  \/ \E s \in Sockets : ClientClose(s)
  \/ \E s \in LiveSockets : Hello(s, OneEach[s])
  \/ \E s \in Sockets : ConnectSelf(s)
  \/ \E s \in Sockets : ConnectOthers(s)
  \/ \E s \in Sockets : HandlerExit(s)
  \/ \E u \in Users : Restore(u)
  \/ \E u \in Users : CleanupFire(u)
  \/ LifeTick
  \/ SweepStart
  \/ \E u \in Users : MonitorBegin(u)
  \/ MonitorWrite
  \/ StaleCleanup
  \/ StartBackgroundTasks
  \/ StopBackgroundTasks

SpecLifecycle == Init /\ [][NextLifecycle]_vars

(***************************************************************************)
(* The handshake with websocket.accept() as a step of its own: the handler *)
(* then awaits receive_text for as long as the client sends nothing.       *)
(***************************************************************************)

\* await websocket.accept(); the handler goes on to await receive_text.
Accept(s) ==
  /\ handler[s].pc = "free"
  /\ transport[s] = "none"
  /\ handler' = [handler EXCEPT ![s].pc = "hello_wait"]
  /\ transport' = [transport EXCEPT ![s] = "open"]
  /\ ev' = Event("accept", s, NoUser, FALSE, {}, "none")
  /\ UNCHANGED <<mgrVars, offline_for, cleaned, closes>>

\* The first frame of an accepted transport is an object of another type:
\* ERROR HELLO_REQUIRED and the endpoint returns.
HelloRequiredAccepted(s) ==
  /\ handler[s].pc = "hello_wait"
  /\ transport[s] = "open"
  /\ CanReceive
  /\ handler' = [handler EXCEPT ![s] = FreeHandler]
  /\ transport' = [transport EXCEPT ![s] = "none"]
  /\ ev' = Event("hello_required", s, NoUser, TRUE,
                 {Sent(NoUser, s, ErrorMessage("HELLO_REQUIRED"), "delivered")}, "HELLO_REQUIRED")
  /\ UNCHANGED <<mgrVars, offline_for, cleaned, closes>>

\* The peer of an accepted transport has gone away: receive_text raises
\* WebSocketDisconnect and the endpoint returns; user_id is None.
HandshakeExit(s) ==
  /\ handler[s].pc = "hello_wait"
  /\ transport[s] = "closed"
  /\ handler' = [handler EXCEPT ![s] = FreeHandler]
  /\ transport' = [transport EXCEPT ![s] = "none"]
  /\ ev' = Event("exit", s, NoUser, TRUE, {}, "none")
  /\ UNCHANGED <<mgrVars, offline_for, cleaned, closes>>

NextHandshake ==
  \/ \E s \in Sockets : Accept(s)
  \/ \E s \in Sockets : ClientClose(s)
  \/ \E s \in Sockets : HelloFrom(s, OneEach[s], "hello_wait")
  \/ \E s \in Sockets : HelloRequiredAccepted(s)
  \/ \E s \in Sockets : HandshakeExit(s)
  \/ \E s \in Sockets : ConnectSelf(s)
  \/ \E s \in Sockets : ConnectOthers(s)
  \/ \E s \in Sockets : FanOutStep(s)
  \/ \E s \in Sockets : HandlerExit(s)
  \/ \E u \in Users : Restore(u)
  \/ \E u \in Users : CleanupFire(u)
  \/ Tick(GracePeriod)

\* The event loop runs every task that is ready and every sleep ends; what a
\* client does (connect, send a frame, go away) may never happen.
ServerFairness ==
  /\ \A s \in Sockets : /\ WF_vars(HandshakeExit(s))
                        /\ WF_vars(ConnectSelf(s))
                        /\ WF_vars(ConnectOthers(s))
                        /\ WF_vars(FanOutStep(s))
                        /\ WF_vars(HandlerExit(s))
  /\ \A u \in Users : WF_vars(Restore(u)) /\ WF_vars(CleanupFire(u))
  /\ WF_vars(Tick(GracePeriod))

SpecHandshake == Init /\ [][NextHandshake]_vars /\ ServerFairness

(***************************************************************************)
(* handle_message, called with the identity of the handler: the activity   *)
(* update, the rate limit, and the dispatch of PING and of a type the      *)
(* manager does not know.                                                  *)
(***************************************************************************)

\* update_connection_activity
UpdateConnectionActivity(m, user_id) ==
  IF IsOnline(m, user_id) THEN [m EXCEPT !.connection_activity[user_id] = 0] ELSE m

\* handle_ping: last_ping is written, PONG goes out through
\* send_personal_message and None is returned.
HandlePing(m, user_id, fk) ==
  LET r == SendPersonalMessage([m EXCEPT !.last_ping = @ \cup {user_id},
                                         !.last_ping_age[user_id] = 0],
                               Pong, user_id, fk)
  IN  [m |-> r.m, log |-> {r.rec}, resp |-> "none"]

\* handle_message at time current_time for a frame of type message_type,
\* "PING" or one that is not among supported_types: the manager afterwards,
\* the frames written by the manager and the error code returned.
HandleMessage(m, current_time, user_id, message_type, fk) ==
  LET m1 == UpdateConnectionActivity(m, user_id)
      r == CheckRateLimit(m1.rate_limiter, current_time, user_id, message_type)
      m2 == [m1 EXCEPT !.rate_limiter = r.rl]
  IN  IF ~r.ok THEN [m |-> m2, log |-> {}, resp |-> "RATE_LIMITED"]
      ELSE IF message_type = "PING" THEN HandlePing(m2, user_id, fk)
      ELSE [m |-> m2, log |-> {}, resp |-> "UNKNOWN_MESSAGE_TYPE"]

\* The frames the client of A sends, and how often time passes.
GateScenario ==
  [callers |-> {<<"A", "PING">>, <<"A", "STATUS">>}, ticks |-> 1, resets |-> 0]

InitGate == InitManager /\ InitRateLimiter /\ scenario = GateScenario

\* A frame arrives on s and handle_message returns; the endpoint writes what
\* it returned.
GateFrame(s, message_type) ==
  /\ handler[s].pc = "main"
  /\ transport[s] = "open"
  /\ CanReceive
  /\ <<handler[s].user_id, message_type>> \in scenario.callers
  /\ LET u == handler[s].user_id IN
     \E fk \in Raises(Cur, u) :
        LET r == HandleMessage(Cur, clock, u, message_type, fk) IN
        /\ Commit(r.m)
        /\ ev' = RouterEvent("gate", s, u,
                             r.log \cup (IF r.resp = "none" THEN {} ELSE {Response(s, u, r.resp)}),
                             r.resp, message_type)
  /\ UNCHANGED <<transport, handler, offline_for, cleaned, closes>>

\* d seconds pass with no other event, on the clock of the rate limiter too.
GateTick(d) ==
  /\ scenario.ticks > 0
  /\ restore_tasks = {}
  /\ Busy = {}
  /\ \A e \in BagToSet(cleanup_tasks) : e[2] >= d
  /\ scenario' = [scenario EXCEPT !.ticks = @ - 1]
  /\ clock' = clock + d
  /\ cleanup_tasks' = [e \in {<<x[1], x[2] - d>> : x \in BagToSet(cleanup_tasks)} |->
                          cleanup_tasks[<<e[1], e[2] + d>>]]
  /\ offline_for' = [u \in Users |->
        IF offline_for[u] = Never THEN Never
        ELSE IF offline_for[u] + d < GracePeriod THEN offline_for[u] + d ELSE GracePeriod]
  /\ last_ping_age' = [u \in Users |-> Aged(last_ping_age[u], d)]
  /\ connection_activity' = [u \in Users |-> Aged(connection_activity[u], d)]
  /\ ev' = NoEv
  /\ UNCHANGED <<active_connections, user_info, last_ping, chat_sessions, user_chats,
                 typing_users, uuid_next, restore_tasks, transport, handler, cleaned, closes,
                 rate_limiter, admitted, admitted_all, resets, liveVars>>

NextGate ==
  \/ \E s \in Sockets : ClientClose(s)
  \/ \E s \in LiveSockets : Hello(s, OneEach[s])
  \/ \E s \in Sockets : ConnectSelf(s)
  \/ \E s \in Sockets : ConnectOthers(s)
  \/ \E s \in Sockets, message_type \in {c[2] : c \in GateScenario.callers} :
        GateFrame(s, message_type)
  \/ \E s \in Sockets : HandlerExit(s)
  \/ \E u \in Users : Restore(u)
  \/ \E u \in Users : CleanupFire(u)
  \/ GateTick(GracePeriod)

SpecGate == InitGate /\ [][NextGate]_vars

(***************************************************************************)
(* The RateLimiter object on its own.                                      *)
(***************************************************************************)

RlEvent(op, u, message_type, ok) ==
  [op |-> op, sock |-> NoSock, user |-> u, fin |-> TRUE, log |-> {},
   resp |-> IF ok THEN "none" ELSE "RATE_LIMITED", type |-> message_type]

\* Who calls check_rate_limit in a behaviour and with which message types,
\* how often time passes between the calls, and how often reset_user_limits
\* is called.
Scenarios ==
  { [callers |-> {<<"A", "TYPING">>, <<"A", "OPEN_CHAT">>}, ticks |-> MaxTicks,
     resets |-> MaxResets],
    [callers |-> {<<"A", "TYPING">>, <<"B", "TYPING">>}, ticks |-> 1, resets |-> MaxResets],
    [callers |-> {<<"A", "MSG">>}, ticks |-> 1, resets |-> MaxResets],
    [callers |-> {<<"B", "PING">>}, ticks |-> MaxTicks, resets |-> MaxResets],
    [callers |-> {<<"A", "MSG">>, <<"A", "TYPING">>, <<"A", "PING">>}, ticks |-> 0,
     resets |-> 0] }

\* The seconds that pass at once.
TickSteps == {Window, Window + 1, cleanup_interval + 1}

InitLimiter == InitManager /\ InitRateLimiter /\ scenario \in Scenarios

endpointVars == <<active_connections, user_info, last_ping, chat_sessions, user_chats,
                  typing_users, uuid_next, restore_tasks, cleanup_tasks,
                  transport, handler, offline_for, cleaned, closes, last_ping_age,
                  connection_activity, liveVars>>

\* rate_limiter.check_rate_limit(user_id, message_type)
Check(u, message_type) ==
  /\ <<u, message_type>> \in scenario.callers
  /\ LET r == CheckRateLimit(rate_limiter, clock, u, message_type)
         rec == r.ok /\ message_type \in LimitedTypes
     IN  /\ rate_limiter' = r.rl
         /\ admitted' = IF rec THEN [admitted EXCEPT ![u][message_type] = Append(@, clock)]
                        ELSE admitted
         /\ admitted_all' = IF rec THEN [admitted_all EXCEPT ![u][message_type] = Append(@, clock)]
                            ELSE admitted_all
         /\ ev' = RlEvent("check", u, message_type, r.ok)
  /\ UNCHANGED <<endpointVars, clock, scenario, resets>>

\* rate_limiter.reset_user_limits(user_id)
Reset(u) ==
  /\ resets < scenario.resets
  /\ \E ty \in LimitedTypes : <<u, ty>> \in scenario.callers
  /\ resets' = resets + 1
  /\ rate_limiter' = ResetUserLimits(rate_limiter, u)
  /\ admitted' = [admitted EXCEPT ![u] = [ty \in LimitedTypes |-> <<>>]]
  /\ ev' = RlEvent("reset", u, "none", TRUE)
  /\ UNCHANGED <<endpointVars, clock, admitted_all, scenario>>

\* d seconds pass.
Advance(d) ==
  /\ scenario.ticks > 0
  /\ scenario' = [scenario EXCEPT !.ticks = @ - 1]
  /\ clock' = clock + d
  /\ admitted' = [u \in Users |-> [ty \in LimitedTypes |-> Recent(admitted[u][ty], clock + d)]]
  /\ admitted_all' =
        [u \in Users |-> [ty \in LimitedTypes |-> Recent(admitted_all[u][ty], clock + d)]]
  /\ ev' = RlEvent("advance", NoUser, "none", TRUE)
  /\ UNCHANGED <<endpointVars, rate_limiter, resets>>

MessageTypes == LimitedTypes \cup {"OPEN_CHAT"}

NextLimiter ==
  \/ \E u \in Users, message_type \in MessageTypes : Check(u, message_type)
  \/ \E u \in Users : Reset(u)
  \/ \E d \in TickSteps : Advance(d)

SpecLimiter == InitLimiter /\ [][NextLimiter]_vars

(***************************************************************************)
(* Properties.                                                             *)
(***************************************************************************)

\* The step is the first of an OPEN_CHAT taken from transport s that did not
\* end in an error.
OpenChatBegins(s) ==
  /\ ev'.op = "open_chat"
  /\ ev'.sock = s
  /\ handler[s].pc = "main"
  /\ ev'.resp \notin {"INVALID_OPEN_CHAT", "USER_NOT_FOUND"}

\* The restore task of u runs in this step.
Restores(u) == ev'.op = "restore" /\ ev'.user = u

\* C1: when u, whose active chat c it shares with another identity, was
\* removed by disconnect() and registers again before GracePeriod seconds have
\* passed, its restore task leaves user_chats[u] = c and u in c, and writes u a
\* CHAT_OPENED for c.
C1_ReconnectWithinGrace ==
  [][\A u \in Users :
       LET c == user_chats[u] IN
       (/\ Restores(u)
        /\ offline_for[u] \in 0..(GracePeriod - 1)
        /\ c # NoChat
        /\ DictHas(chat_sessions, c)
        /\ u \in DictGet(chat_sessions, c)
        /\ Cardinality(DictGet(chat_sessions, c)) = 2) =>
          /\ user_chats'[u] = c
          /\ DictHas(chat_sessions', c)
          /\ u \in DictGet(chat_sessions', c)
          /\ \E x \in ev'.log :
               x.to = u /\ x.frame.type = "CHAT_OPENED" /\ x.frame.chat_id = c]_vars

\* C2: when u registers again GracePeriod seconds or more after disconnect()
\* removed it, and its delayed cleanup ran while it was not registered, its
\* restore task leaves u with no active chat and writes it no CHAT_OPENED.
C2_ReconnectAfterGrace ==
  [][\A u \in Users :
       (/\ Restores(u)
        /\ offline_for[u] = GracePeriod
        /\ u \in cleaned) =>
          /\ user_chats'[u] = NoChat
          /\ \A x \in ev'.log : x.frame.type # "CHAT_OPENED"]_vars

\* C3: when u is registered and a HELLO registers it on another transport, the
\* transport it was registered on is closed and the registry maps u to the new
\* one.
C3_ReRegistrationClosesPrevious ==
  [][\A s \in Sockets, u \in Users :
       (/\ ev'.op = "hello" /\ ev'.sock = s /\ ev'.user = u
        /\ active_connections[u] \notin {NoSock, s}) =>
          /\ transport'[active_connections[u]] # "open"
          /\ active_connections'[u] = s]_vars

\* C4: a failed write for an identity is followed by what disconnect() does:
\* the identity is out of active_connections, user_info, last_ping and the
\* typing sets, and a delayed cleanup of its chats is scheduled.
C4_FailedSendIsDisconnect ==
  [][\A x \in ev'.log :
       x.res = "failed" =>
         /\ active_connections'[x.to] = NoSock
         /\ user_info'[x.to] = NoName
         /\ x.to \notin last_ping'
         /\ \A c \in Uuids : x.to \notin typing_users'[c]
         /\ \E e \in BagToSet(cleanup_tasks') : e[1] = x.to]_vars

\* The identities a step wrote a frame for.
SentTo(e) == {x.to : x \in e.log}

\* C5: a fan-out goes through all its recipients whatever the writes do.  The
\* presence broadcasts start with every other registered identity as
\* recipients; each later step writes the same frame for one recipient that is
\* left and, delivered or failed or not registered any more, leaves the others
\* to be written to; the operation then ends as it does after a delivery, and
\* no error is answered.
C5_FanOutGoesOn ==
  [][\A s \in Sockets :
       LET h == handler[s]
           u == h.user_id
       IN  /\ (h.pc = "connect_others" /\ handler'[s] # h) =>
                /\ SentTo(ev') \cup handler'[s].pend =
                      IF Cardinality(OnlineSet(Cur)) > 1 THEN OnlineSet(Cur) \ {u} ELSE {}
                /\ handler'[s].pc = IF handler'[s].pend = {} THEN "main" ELSE "fanout"
           /\ (h.pc = "main" /\ ev'.op = "disconnect" /\ ev'.sock = s) =>
                /\ SentTo(ev') \cup handler'[s].pend = OnlineSet(Cur) \ {u}
                /\ handler'[s].pc = IF handler'[s].pend = {} THEN "free" ELSE "fanout"
           /\ (h.pc = "fanout" /\ handler'[s] # h) =>
                \E x \in ev'.log :
                   /\ ev'.log = {x}
                   /\ x.to \in h.pend
                   /\ x.frame = h.frame
                   /\ ev'.resp = "none"
                   /\ IF h.pend = {x.to}
                      THEN handler'[s].pc = CASE h.op = "disconnect" -> "free"
                                              [] h.op = "msg" -> "msg_ack"
                                              [] OTHER -> "main"
                      ELSE /\ handler'[s].pc = "fanout"
                           /\ handler'[s].pend = h.pend \ {x.to}
                           /\ handler'[s].frame = h.frame
           /\ (h.pc = "msg_ack" /\ handler'[s] # h) =>
                /\ \E x \in ev'.log : x.to = u /\ x.frame.type = "MSG_ACK"
                /\ handler'[s].pc = "main"
           /\ handler'[s].pc = "fanout" => handler'[s].pend # {}]_vars

\* A write of a fan-out has just failed and a recipient is left.
C5_Witness ==
  \E s \in Sockets :
    /\ handler[s].pc = "fanout"
    /\ ev.sock = s
    /\ \E x \in ev.log : x.res = "failed" /\ x.to \notin handler[s].pend

\* The ids of the sessions of cs that hold both a and b.
ChatsOf(cs, a, b) == {cs[i][1] : i \in {j \in 1..Len(cs) : {a, b} \subseteq cs[j][2]}}

\* No chat id is the key of two sessions, and no two sessions hold the same
\* two identities.
OneSessionPerPair(cs) ==
  /\ \A i, j \in 1..Len(cs) : cs[i][1] = cs[j][1] => i = j
  /\ \A i, j \in 1..Len(cs) : i # j => Cardinality(cs[i][2] \cap cs[j][2]) < 2

OpenChatRepointsBoth(s, r, t, c) ==
  /\ user_chats'[r] = c
  /\ user_chats'[t] = c
  /\ DictHas(chat_sessions', c)
  /\ {r, t} \subseteq DictGet(chat_sessions', c)
  /\ handler'[s].pc = "fanout"
  /\ handler'[s].pend = {t}
  /\ handler'[s].frame.type = "CHAT_OPENED"
  /\ handler'[s].frame.chat_id = c

\* The second write of an OPEN_CHAT: the pending frame, for the pending target.
OpenChatSecondWrite(s) ==
  (ev'.op = "open_chat" /\ ev'.sock = s /\ handler[s].pc = "fanout") =>
     \E x \in ev'.log : /\ {x.to} = handler[s].pend
                        /\ x.frame = handler[s].frame
                        /\ (IsOnline(Cur, x.to) => x.res # "not_connected")

\* r's active chat already holds t.
AlreadyInChatWith(r, t) ==
  /\ user_chats[r] # NoChat
  /\ DictHas(chat_sessions, user_chats[r])
  /\ t \in DictGet(chat_sessions, user_chats[r])

C8_ChatOpenedNamesOther ==
  ev.op = "open_chat" =>
    \A x \in ev.log :
      (x.frame.type = "CHAT_OPENED" /\ x.frame.participants[1] # x.frame.participants[2]) =>
         x.frame.target_user_id # x.to

MsgSentTo(e) == {x.to : x \in {y \in e.log : y.frame.type = "MSG"}}

Acks(e) == {x \in e.log : x.frame.type = "MSG_ACK"}

MsgBegins(s) == ev'.op = "msg" /\ ev'.sock = s /\ handler[s].pc = "main"

\* u and o point at one session, and it holds both.
PairedWith(m, u, o) ==
  /\ m.user_chats[u] # NoChat
  /\ m.user_chats[o] = m.user_chats[u]
  /\ DictHas(m.chat_sessions, m.user_chats[u])
  /\ {u, o} \subseteq DictGet(m.chat_sessions, m.user_chats[u])

BadContent(data) == data.content = 0 \/ data.content > MaxMessageLength

\* C13: a MSG whose content is empty or too long is answered ERROR VALIDATION,
\* whether or not its sender has an active chat; no MSG frame is written and
\* chat_sessions, user_chats and typing_users are as they were.
C13_BadContentChangesNothing ==
  [][\A s \in Sockets : \A data \in MsgData :
       (MsgBegins(s) /\ BadContent(data) /\ Msg(s, data)) =>
          /\ ev'.resp = "VALIDATION"
          /\ ev'.log = {Sent(handler[s].user_id, s, ErrorMessage("VALIDATION"), "delivered")}
          /\ chat_sessions' = chat_sessions
          /\ user_chats' = user_chats
          /\ typing_users' = typing_users]_vars

\* The other participants of the session user_chats names for u.
OtherParticipants(m, u) ==
  IF DictHas(m.chat_sessions, m.user_chats[u])
  THEN DictGet(m.chat_sessions, m.user_chats[u]) \ {u} ELSE {}

\* C14: a TYPING frame from an identity without an active chat is answered
\* ERROR NOT_IN_CHAT and changes nothing; from any other identity it leaves the
\* identity in the typing set of its active chat exactly when is_typing is true,
\* and a TYPING frame with its id and is_typing is written for every other
\* participant of that chat and not for the sender.
C14_Typing ==
  [][\A s \in Sockets : \A is_typing \in BOOLEAN :
       LET u == handler[s].user_id
           c == user_chats[u]
       IN  (ev'.op = "typing" /\ ev'.sock = s /\ handler[s].pc = "main"
              /\ Typing(s, is_typing)) =>
             IF c = NoChat
             THEN /\ ev'.resp = "NOT_IN_CHAT"
                  /\ ev'.log = {Sent(u, s, ErrorMessage("NOT_IN_CHAT"), "delivered")}
                  /\ Cur' = Cur
             ELSE /\ ev'.resp = "none"
                  /\ (u \in typing_users'[c]) = is_typing
                  /\ SentTo(ev') \cup handler'[s].pend = OtherParticipants(Cur, u)
                  /\ \A x \in ev'.log :
                       /\ x.frame.type = "TYPING"
                       /\ x.frame.user_id = u
                       /\ x.frame.is_typing = is_typing]_vars

\* u is in no typing set.
TypesNowhere(m, u) == \A c \in DOMAIN m.typing_users : u \notin m.typing_users[c]

\* C15: an identity is in no typing set after its TYPING frame with is_typing
\* false has been handled, after its MSG has been accepted, and after
\* disconnect() has removed it.
C15_TypingPruned ==
  [][\A s \in Sockets :
       LET u == handler[s].user_id IN
       /\ (ev'.op = "typing" /\ ev'.sock = s /\ handler[s].pc = "main"
             /\ ev'.resp = "none" /\ Typing(s, FALSE)) => TypesNowhere(Cur', u)
       /\ (MsgBegins(s) /\ ev'.resp = "none") => TypesNowhere(Cur', u)
       /\ (ev'.op = "disconnect" /\ ev'.sock = s /\ handler[s].pc = "main") =>
             TypesNowhere(Cur', u)]_vars

\* A write for an identity registered on an open transport is delivered there.
Reaches(x) ==
  (IsOnline(Cur, x.to) /\ transport[active_connections[x.to]] = "open") =>
     x.res = "delivered" /\ x.sock = active_connections[x.to]

Leaves(s) == handler[s].pc = "main" /\ ev'.sock = s /\ ev'.op \in {"disconnect", "exit"}

\* C17: when the handler of a closed transport leaves, one PRESENCE
\* "disconnect" frame with the single entry of its identity u is written for
\* every identity that remains registered, once for each, and none for u.
C17_PresenceOnDisconnect ==
  [][\A s \in Sockets :
       LET h == handler[s]
           u == h.user_id
           gone == PresenceMessage({<<u, NameOf[u], FALSE>>}, "disconnect")
       IN  /\ Leaves(s) =>
                /\ SentTo(ev') \cup handler'[s].pend = OnlineSet(Cur) \ {u}
                /\ SentTo(ev') \cap handler'[s].pend = {}
                /\ Cardinality(ev'.log) = Cardinality(SentTo(ev'))
                /\ \A x \in ev'.log : x.frame = gone
                /\ handler'[s].pend # {} =>
                      handler'[s].frame = gone /\ handler'[s].op = "disconnect"
           /\ (h.pc = "fanout" /\ h.op = "disconnect" /\ handler'[s] # h) =>
                \E x \in ev'.log :
                   /\ ev'.log = {x}
                   /\ x.to \in h.pend
                   /\ x.to # u
                   /\ x.frame = h.frame
                   /\ handler'[s].pend = h.pend \ {x.to}]_vars

\* C18: a disconnect of an identity that has not been registered since it
\* was last removed changes nothing in the manager, writes no frame and
\* starts no delayed cleanup task.
C18_DisconnectIdempotent ==
  [][\A s \in Sockets :
       (Leaves(s) /\ ~IsOnline(Cur, handler[s].user_id)) =>
          /\ UNCHANGED mgrVars
          /\ ev'.log = {}
          /\ cleanup_tasks' = cleanup_tasks]_vars

\* The second of two handlers of A has left after disconnect(A) had already
\* been run by the first, with no registration of A in between.
C18_Witness ==
  /\ ev.op = "exit"
  /\ ev.user = "A"
  /\ offline_for["A"] # Never
  /\ ~IsOnline(Cur, "A")
  /\ \A s \in Sockets : handler[s].user_id # "A"

\* A call of check_rate_limit by u with message_type leaves what has been
\* admitted for every other identity and type as it was, and does not change
\* what check_rate_limit would return for them at this time.
Unaffected(u, message_type) ==
  \A u2 \in Users, ty2 \in LimitedTypes :
     (<<u2, ty2>> # <<u, message_type>>) =>
        /\ admitted_all'[u2][ty2] = admitted_all[u2][ty2]
        /\ CheckRateLimit(rate_limiter', clock, u2, ty2).ok
              = CheckRateLimit(rate_limiter, clock, u2, ty2).ok

C20_AdmittedOnceOldestExpired ==
  [][(ev'.op = "check" /\ ev'.type \in LimitedTypes) =>
        LET timestamps == rate_limiter[TimestampsOf(ev'.type)][ev'.user] IN
        (timestamps # <<>> /\ Head(timestamps) < clock - Window) => ev'.resp = "none"]_vars

\* The first frame on the new transport s was taken up in this step and was
\* not a HELLO.
FirstFrameNotHello(s) ==
  ev'.sock = s /\ ev'.op \in {"hello_required", "invalid_json", "not_object"}

\* C29: when the first frame on a new transport is not a HELLO, ERROR
\* HELLO_REQUIRED is written on the transport and nothing else is written,
\* the handler ends, no identity is registered and nothing in the manager
\* changes.
C29_HelloRequired ==
  [][\A s \in Sockets :
       FirstFrameNotHello(s) =>
          /\ ev'.log = {Sent(NoUser, s, ErrorMessage("HELLO_REQUIRED"), "delivered")}
          /\ handler'[s] = FreeHandler
          /\ UNCHANGED mgrVars]_vars

\* The frame on transport s that the endpoint took up in this step came after
\* the handshake.
FrameTaken(s) == ev'.sock = s /\ ev'.op \in {"ping", "pong", "frame"}

\* C21: for every frame taken up after the handshake whose type is limited
\* (PING among them), check_rate_limit has been called for the identity and
\* the type: a timestamp has been recorded for it, or the frame has been
\* answered with ERROR RATE_LIMITED and nothing else.
C21_EveryFrameRateLimited ==
  [][\A s \in Sockets :
       (FrameTaken(s) /\ ev'.type \in LimitedTypes) =>
          LET u == handler[s].user_id
              d == TimestampsOf(ev'.type)
          IN  \/ Len(rate_limiter'[d][u]) = Len(rate_limiter[d][u]) + 1
              \/ /\ ev'.resp = "RATE_LIMITED"
                 /\ \A x \in ev'.log : x.frame = ErrorMessage("RATE_LIMITED")]_vars

\* start_ping_task looks at identity u in this step.
Looks(u) == u \in sweeping /\ u \notin sweeping'

\* C24: when the liveness sweep looks at a registered identity, the identity
\* is disconnected if and only if more than ping_interval times
\* ping_miss_threshold seconds have passed since last_ping was written for
\* it; the disconnect removes it from the registry, writes the PRESENCE
\* disconnect frame to every other registered identity and schedules the
\* deferred chat cleanup, as the close of a transport does; an identity not
\* timed out is left as it is.
C24_SweepDisconnects ==
  [][\A u \in Users :
       (Looks(u) /\ IsOnline(Cur, u)) =>
          IF last_ping_age[u] > ping_interval * ping_miss_threshold
          THEN /\ active_connections'[u] = NoSock
               /\ {x.to : x \in ev'.log} = OtherKeys(Cur, u)
               /\ \A x \in ev'.log : x.frame = DisconnectMessage(Cur, u)
               /\ cleanup_tasks' = cleanup_tasks (+) SetToBag({<<u, GracePeriod>>})
          ELSE /\ ev'.log = {}
               /\ UNCHANGED coreVars]_vars

\* The sweep has disconnected an identity while another one was registered.
C24_Witness ==
  /\ ev.op = "timeout"
  /\ \E x \in ev.log : x.frame.type = "PRESENCE" /\ x.to # ev.user
  /\ ~IsOnline(Cur, ev.user)

\* C25: a PING of a registered identity is answered with PONG and writes
\* last_ping for it; a PONG writes last_ping and nothing is sent; and the
\* liveness sweep never disconnects an identity of a pinging client whose last
\* PING or PONG is at most ping_interval seconds old.
C25_PingPongRefreshLiveness ==
  [][/\ \A s \in Sockets :
          LET u == handler[s].user_id IN
          (FrameTaken(s) /\ IsOnline(Cur, u)) =>
             /\ ev'.op = "ping" =>
                   /\ ev'.log = {Sent(u, s, Pong, "delivered")}
                   /\ last_ping_age'[u] = 0
             /\ ev'.op = "pong" =>
                   /\ ev'.log = {}
                   /\ last_ping_age'[u] = 0
     /\ \A u \in {OneEach[s] : s \in PingSockets} :
          (Looks(u) /\ IsOnline(Cur, u) /\ heard_age[u] \in 0..ping_interval) =>
             active_connections'[u] # NoSock]_vars

\* C26: the liveness sweep never disconnects the identity of a client that
\* sends frames other than PING and PONG when the last of these frames is at
\* most ping_interval times ping_miss_threshold seconds old.
C26_ChattyClientStays ==
  [][\A u \in {OneEach[s] : s \in FrameSockets} :
       (Looks(u) /\ IsOnline(Cur, u) /\ heard_age[u] \in 0..LivenessTimeout) =>
          active_connections'[u] # NoSock]_vars

\* C27: a frame after the handshake whose type is none of supported_types is
\* answered with ERROR UNKNOWN_MESSAGE_TYPE and with nothing else; the
\* identity stays registered and its handler is back in the main loop.
C27_UnknownMessageType ==
  [][\A s \in Sockets :
       LET u == handler[s].user_id IN
       (FrameTaken(s) /\ ev'.type \notin supported_types) =>
          /\ ev'.resp = "UNKNOWN_MESSAGE_TYPE"
          /\ ev'.log = {Sent(u, s, ErrorMessage("UNKNOWN_MESSAGE_TYPE"), "delivered")}
          /\ handler'[s] = MainLoop(u)
          /\ active_connections' = active_connections]_vars

\* C28: an exception raised while a frame after the handshake is handled is
\* reported with ERROR INTERNAL_ERROR and with nothing else, the handler is
\* back in its main loop, and the registry, the chats and the rest of the
\* manager are as before; and the next frame of a supported type on that
\* transport reaches its handler: it is not answered with INTERNAL_ERROR.
C28_ExceptionContained ==
  [][\A s \in Sockets :
       LET u == handler[s].user_id IN
       /\ (FrameTaken(s) /\ ev'.resp = "INTERNAL_ERROR") =>
             /\ ev'.log = {Sent(u, s, ErrorMessage("INTERNAL_ERROR"), "delivered")}
             /\ handler'[s] = MainLoop(u)
             /\ transport'[s] = "open"
             /\ UNCHANGED coreVars
       /\ (/\ ev.op = "frame" /\ ev.sock = s /\ ev.resp = "INTERNAL_ERROR"
           /\ FrameTaken(s) /\ ev'.type \in supported_types) =>
             ev'.resp # "INTERNAL_ERROR"]_vars

\* C22: a frame that check_rate_limit rejects is answered with ERROR
\* RATE_LIMITED and with nothing else, and the chat sessions, the active-chat
\* pointers, the typing sets, last_ping, connection_activity and the windows
\* of the rate limiter are as before the frame.
C22_RejectedFrameChangesNothing ==
  [][\A s \in Sockets :
       (ev'.op = "gate" /\ ev'.sock = s /\ ev'.resp = "RATE_LIMITED") =>
          /\ ev'.log = {Sent(handler[s].user_id, s, ErrorMessage("RATE_LIMITED"), "delivered")}
          /\ UNCHANGED <<chat_sessions, user_chats, typing_users, last_ping, last_ping_age,
                         connection_activity, rate_limiter>>]_vars

\* C23: whatever path has removed u from the registry has called
\* reset_user_limits(u): when u registers again, none of the three windows of
\* the rate limiter holds a timestamp of u, so u is admitted in every category.
C23_ResetOnEveryDisconnect ==
  [][\A u \in Users :
       (ev'.op = "hello" /\ ev'.user = u) =>
          \A message_type \in LimitedTypes :
             /\ rate_limiter'[TimestampsOf(message_type)][u] = <<>>
             /\ CheckRateLimit(rate_limiter', clock', u, message_type).ok]_vars

\* C30: an accepted transport on which no HELLO has arrived does not stay
\* that way for ever: the handshake ends, with ERROR HELLO_TIMEOUT and the
\* close of the transport when the client sends nothing.
C30_HelloTimeout ==
  \A s \in Sockets : (handler[s].pc = "hello_wait") ~> (handler[s].pc # "hello_wait")

\* C32: whenever no handler is inside an operation, an identity is in
\* active_connections if and only if it has a user_info entry and a last_ping
\* entry.
C32_RegistryConsistent ==
  Busy = {} =>
     \A u \in Users :
        /\ IsOnline(Cur, u) <=> user_info[u] # NoName
        /\ IsOnline(Cur, u) <=> u \in last_ping

\* C33: every session in chat_sessions has exactly two participants.
C33_TwoParticipants ==
  \A i \in 1..Len(chat_sessions) : Cardinality(chat_sessions[i][2]) = 2

\* C35: whenever user_chats maps an identity to a chat, the chat is in
\* chat_sessions and the identity is one of its participants.
C35_NoDanglingPointer ==
  \A u \in Users :
     user_chats[u] # NoChat =>
        /\ DictHas(chat_sessions, user_chats[u])
        /\ u \in DictGet(chat_sessions, user_chats[u])

\* C34: no session holds an identity that is not registered, has been away
\* for GracePeriod seconds or more and whose delayed cleanups have all run.
C34_SessionsTornDown ==
  \A u \in Users :
     (/\ ~IsOnline(Cur, u)
      /\ offline_for[u] = GracePeriod
      /\ \A e \in BagToSet(cleanup_tasks) : e[1] # u) =>
        \A i \in 1..Len(chat_sessions) : u \notin chat_sessions[i][2]

\* C38: a MSG_ACK with status "delivered" is written only at the end of a
\* fan-out that has written the MSG frame for at least one other participant
\* and whose writes were delivered.
C38_DeliveredMeansWritten ==
  [][\A s \in Sockets : \A x \in Acks(ev') :
       (ev'.sock = s /\ x.frame.status = "delivered") =>
          /\ handler[s].pc = "msg_ack"
          /\ handler[s].reached]_vars

\* C36: when the handler of a transport leaves while its identity u is
\* registered with another transport, u stays registered with that one, no
\* PRESENCE disconnect frame is written and no delayed cleanup of u's chats is
\* scheduled.
C36_OldHandlerLeavesNewAlone ==
  [][\A s \in Sockets :
       LET u == handler[s].user_id IN
       (Leaves(s) /\ active_connections[u] \notin {NoSock, s}) =>
          /\ active_connections'[u] = active_connections[u]
          /\ \A x \in ev'.log : x.frame.type # "PRESENCE"
          /\ cleanup_tasks' = cleanup_tasks]_vars

\* C37: a delayed cleanup task of u that wakes up less than GracePeriod
\* seconds after the most recent disconnect of u leaves u's active-chat
\* pointer and the chat sessions as they are.
C37_FullGracePeriod ==
  [][\A u \in Users :
       (ev'.op = "cleanup" /\ ev'.user = u /\ offline_for[u] \in 0..(GracePeriod - 1)) =>
          /\ user_chats'[u] = user_chats[u]
          /\ chat_sessions' = chat_sessions]_vars

\* C31: the MSG and TYPING frames of one sender reach the recipients of a chat
\* in the order the loop took them up: every such frame written in a step
\* carries the sender's own identity and is either the frame taken up in that
\* very step or the frame of the fan-out in progress, written to a recipient
\* still pending; no frame of the sender is written while another one is
\* between two of its writes or waits for its acknowledgement.
ChatFrames(e) == {x \in e.log : x.frame.type \in {"MSG", "TYPING"}}
SenderOf(frame) == IF frame.type = "MSG" THEN frame.sender_id ELSE frame.user_id
UnregisteredFrame(s) ==
  /\ ev'.op \in {"open_chat", "msg", "typing"}
  /\ ev'.sock = s
  /\ handler[s].pc = "main"
  /\ transport[s] = "open"
  /\ ~IsOnline(Cur, handler[s].user_id)

\* C39: an OPEN_CHAT, MSG or TYPING frame of an identity u that the monitor
\* removed from the registry, taken from u's open transport before u has
\* handshaken again, creates no session, changes no other identity's active
\* chat and writes no frame to another identity.
C39_UnregisteredChangesNothing ==
  [][\A s \in Sockets :
       LET u == handler[s].user_id IN
       UnregisteredFrame(s) =>
         /\ Len(chat_sessions') = Len(chat_sessions)
         /\ \A v \in Users \ {u} : user_chats'[v] = user_chats[v]
         /\ \A x \in ev'.log : x.to = u]_vars

\* The operations that are an iteration of start_ping_task or of
\* start_cleanup_task, or part of one.
IterationOps == {"sweep", "timeout", "alive", "presence", "stale"}

\* C40: start_background_tasks while the tasks run leaves both tasks and their
\* sleeps as they are; once stop_background_tasks has returned, no step is an
\* iteration of the sweep or of the stale-connection cleanup; and when
\* stop_background_tasks cancels the sweep inside the disconnect of u, u is
\* not left out of the registry with no cleanup task and with a recipient of
\* its PRESENCE broadcast that was never written.
C40_CleanStartStop ==
  [][/\ (ev'.op = "start" /\ running) =>
          UNCHANGED <<running, ping_task, cleanup_task, sweep_in, sweeping>>
     /\ ~running => ev'.op \notin IterationOps
     /\ (ev'.op = "stop" /\ ping_task.pc = "disconnect") =>
          LET u == ping_task.user IN
          \/ IsOnline(Cur, u)
          \/ \E e \in BagToSet(cleanup_tasks') : e[1] = u
          \/ \A v \in ping_task.pend :
               \E x \in ev'.log : x.to = v /\ x.frame.type = "PRESENCE"]_vars

====
